---- MODULE Spec2Model ----
(***************************************************************************)
(* Model of the Cod compiler's optimizer (optimizer.js) and of its         *)
(* analyzer (analyzer.js) over the program representation built by         *)
(* core.js.                                                                *)
(*                                                                         *)
(* JavaScript values are records tagged by the field js, the value's       *)
(* runtime class; objects carry the fields the core.js constructors give   *)
(* them, kind included.  A thrown TypeError is the value Threw, which      *)
(* every operation that receives it passes on.                             *)
(***************************************************************************)
EXTENDS Integers, Sequences, FiniteSets, TLC

\* the optimizer's run
VARIABLES node, wraps, result, result2, pc
\* the analyzer's run
VARIABLES context, stack, thrown, rep, call, steps

vars == <<node, wraps, result, result2, pc>>
avars == <<context, stack, thrown, rep, call, steps>>
allvars == <<node, wraps, result, result2, pc, context, stack, thrown, rep, call, steps>>

\* ------------------------------------------------------------------ bounds
\* largest numeric literal of the inputs
MaxNum == 1
\* largest number of core.js constructor applications on top of a seed
MaxWraps == 2

\* ------------------------------------------------------- JavaScript values
Undefined == [js |-> "undefined"]
Null == [js |-> "null"]
Threw == [js |-> "TypeError"]
Bool(b) == [js |-> "Boolean", val |-> b]
Str(s) == [js |-> "String", val |-> s]
List(items) == [js |-> "Array", items |-> items]

Abs(n) == IF n < 0 THEN -n ELSE n
Sign(n) == IF n < 0 THEN -1 ELSE IF n = 0 THEN 0 ELSE 1

RECURSIVE GCD(_, _)
GCD(a, b) == IF b = 0 THEN a ELSE GCD(b, a % b)

\* A Number is the fraction num/den in lowest terms, den > 0; den = 0 is
\* Infinity (num = 1), -Infinity (num = -1) or NaN (num = 0).  The zero has one
\* representation: -0 is not told apart from 0.
Frac(n, d) ==
  IF d = 0 THEN [js |-> "Number", num |-> Sign(n), den |-> 0]
  ELSE LET g == GCD(Abs(n), Abs(d))
       IN [js |-> "Number", num |-> Sign(d) * Sign(n) * (Abs(n) \div g),
           den |-> Abs(d) \div g]
Num(n) == Frac(n, 1)
NaN == Frac(0, 0)
IsNaN(a) == a.den = 0 /\ a.num = 0
IsInf(a) == a.den = 0 /\ a.num # 0

\* JavaScript's + - * / ** === < on Numbers
NumAdd(a, b) ==
  IF IsNaN(a) \/ IsNaN(b) THEN NaN
  ELSE IF IsInf(a) /\ IsInf(b) THEN (IF a.num = b.num THEN a ELSE NaN)
  ELSE IF IsInf(a) THEN a
  ELSE IF IsInf(b) THEN b
  ELSE Frac(a.num * b.den + b.num * a.den, a.den * b.den)
NumNeg(a) == [a EXCEPT !.num = -a.num]
NumSub(a, b) == NumAdd(a, NumNeg(b))
NumMul(a, b) ==
  IF IsNaN(a) \/ IsNaN(b) THEN NaN
  ELSE IF a.den * b.den = 0 THEN Frac(Sign(a.num) * Sign(b.num), 0)
  ELSE Frac(a.num * b.num, a.den * b.den)
NumDiv(a, b) ==
  IF IsNaN(a) \/ IsNaN(b) THEN NaN
  ELSE IF IsInf(b) THEN (IF IsInf(a) THEN NaN ELSE Num(0))
  ELSE IF IsInf(a) THEN Frac(a.num * (IF b.num < 0 THEN -1 ELSE 1), 0)
  ELSE IF b.num = 0 THEN Frac(Sign(a.num), 0)
  ELSE Frac(a.num * b.den * Sign(b.num), a.den * Abs(b.num))
RECURSIVE NumPowNat(_, _)
NumPowNat(a, n) == IF n = 0 THEN Num(1) ELSE NumMul(a, NumPowNat(a, n - 1))
\* a ** b for an integer exponent; a fractional or infinite exponent has a
\* result outside the fractions and is not represented (NaN stands for it).
NumPow(a, b) ==
  IF b.den # 1 THEN NaN
  ELSE IF b.num = 0 THEN Num(1)
  ELSE IF IsNaN(a) THEN NaN
  ELSE IF b.num > 0 THEN NumPowNat(a, b.num)
  ELSE NumDiv(Num(1), NumPowNat(a, -b.num))
NumLess(a, b) ==
  IF IsNaN(a) \/ IsNaN(b) THEN FALSE
  ELSE IF IsInf(a) /\ IsInf(b) THEN a.num < b.num
  ELSE a.num * b.den < b.num * a.den
NumEq(a, b) == ~IsNaN(a) /\ ~IsNaN(b) /\ a = b

\* ---------------------------------------------------- core.js constructors
voidType == [js |-> "Object", kind |-> "VoidType"]
numberType == [js |-> "Object", kind |-> "NumberType"]
stringType == [js |-> "Object", kind |-> "StringType"]
boolType == [js |-> "Object", kind |-> "BoolType"]

program(statements) ==
  [js |-> "Object", kind |-> "Program", statements |-> statements]
functionDeclaration(name, f, params, body) ==
  [js |-> "Object", kind |-> "functionDeclaration", name |-> name, fun |-> f,
   params |-> params, body |-> body]
fun(name, type) == [js |-> "Object", kind |-> "Function", name |-> name, type |-> type]
functionType(paramTypes, returnType) ==
  [js |-> "Object", kind |-> "functionType", paramTypes |-> paramTypes,
   returnType |-> returnType]
arrayType(baseType) == [js |-> "Object", kind |-> "ArrayType", baseType |-> baseType]
arrayExpression(elements) ==
  [js |-> "Object", kind |-> "arrayExpression", elements |-> elements]
emptyArray(type) == [js |-> "Object", kind |-> "emptyArray", type |-> type]
typeDeclaration(type) == [js |-> "Object", kind |-> "typeDeclaration", type |-> type]
structType(name, fields) ==
  [js |-> "Object", kind |-> "structType", name |-> name, fields |-> fields]
field(name, type) == [js |-> "Object", kind |-> "Field", name |-> name, type |-> type]
variableDeclaration(v, initializer) ==
  [js |-> "Object", kind |-> "variableDeclaration", variable |-> v,
   initializer |-> initializer]
variable(name, readOnly, type) ==
  [js |-> "Object", kind |-> "Variable", name |-> name, readOnly |-> readOnly,
   type |-> type]
ifStatement(test, consequent, alternate) ==
  [js |-> "Object", kind |-> "ifStatement", test |-> test,
   consequent |-> consequent, alternate |-> alternate]
shortIfStatement(test, consequent) ==
  [js |-> "Object", kind |-> "ifStatement", test |-> test, consequent |-> consequent]
forRangeStatement(iterator, low, op, high, body) ==
  [js |-> "Object", kind |-> "forRangeStatement", iterator |-> iterator,
   low |-> low, op |-> Str(op), high |-> high, body |-> body]
forStatement(iterator, collection, body) ==
  [js |-> "Object", kind |-> "forStatement", iterator |-> iterator,
   collection |-> collection, body |-> body]
whileStatement(test, body) ==
  [js |-> "Object", kind |-> "whileStatement", test |-> test, body |-> body]
returnStatement(expression) ==
  [js |-> "Object", kind |-> "returnStatement", expression |-> expression]
shortReturnStatement == [js |-> "Object", kind |-> "returnStatement"]
incrementStatement(operand) ==
  [js |-> "Object", kind |-> "incrementStatement", operand |-> operand]
decrementStatement(operand) ==
  [js |-> "Object", kind |-> "decrementStatement", operand |-> operand]
breakStatement == [js |-> "Object", kind |-> "BreakStatement"]
continueStatement == [js |-> "Object", kind |-> "continueStatement"]
tryCatchStatement(tryBlock, catchBlock) ==
  [js |-> "Object", kind |-> "tryCatchStatement", tryBlock |-> tryBlock,
   catchBlock |-> catchBlock]
printStatement(args) == [js |-> "Object", kind |-> "printStatement", args |-> args]
binary(op, left, right, type) ==
  [js |-> "Object", kind |-> "BinaryExpression", op |-> Str(op), left |-> left,
   right |-> right, type |-> type]
unary(op, operand, type) ==
  [js |-> "Object", kind |-> "UnaryExpression", op |-> Str(op), operand |-> operand,
   type |-> type]
functionCall(callee, args) ==
  [js |-> "Object", kind |-> "FunctionCall", callee |-> callee, args |-> args,
   type |-> callee.type.returnType]

\* the prototype property `type` of the primitives, and the own property of nodes
TypeOf(v) ==
  CASE v.js = "Number" -> numberType
    [] v.js = "Boolean" -> boolType
    [] v.js = "String" -> stringType
    [] v.js = "Object" /\ "type" \in DOMAIN v -> v.type
    [] OTHER -> Undefined

\* ------------------------------------------------------------- optimizer.js
\* property read o.f of a non-nullish value: undefined when o has no such property
Get(o, f) == IF o.js = "Object" /\ f \in DOMAIN o THEN o[f] ELSE Undefined
\* assignment o.f = v
Set(o, f, v) ==
  IF f \in DOMAIN o THEN [o EXCEPT ![f] = v]
  ELSE [g \in DOMAIN o \cup {f} |-> IF g = f THEN v ELSE o[g]]
Nullish(v) == v.js \in {"null", "undefined"}
\* v?.kind, with "undefined" for a value that has no kind
KindOf(v) == IF v.js = "Object" /\ "kind" \in DOMAIN v THEN v.kind ELSE "undefined"
Truthy(v) ==
  CASE v.js \in {"null", "undefined"} -> FALSE
    [] v.js = "Boolean" -> v.val
    [] v.js = "Number" -> ~(v.num = 0)
    [] v.js = "String" -> v.val # ""
    [] OTHER -> TRUE
\* [Number, BigInt].includes(v.constructor)
IsNumeric(v) == v.js \in {"Number", "BigInt"}
\* k.endsWith("ifStatement"), over the kinds core.js gives its nodes
EndsWithIfStatement(k) == k \in {"ifStatement"}

\* the property names of the optimizers object
OptimizerKeys ==
  {"program", "functionDeclaration", "arrayExpression", "variableDeclaration",
   "typeDeclaration", "ifStatement", "shortIfStatement", "whileStatement",
   "forRangeStatement", "forStatement", "returnStatement", "shortReturnStatement",
   "incrementStatement", "decrementStatement", "breakStatement", "binary",
   "unary", "functionCall"}

RECURSIVE optimize(_), FlatMapItems(_), MapItems(_), flatMapOptimize(_),
          mapOptimize(_), optimizers_program(_),
          optimizers_functionDeclaration(_), optimizers_arrayExpression(_),
          optimizers_variableDeclaration(_), optimizers_typeDeclaration(_),
          optimizers_ifStatement(_), optimizers_shortIfStatement(_),
          optimizers_whileStatement(_), optimizers_forRangeStatement(_),
          optimizers_forStatement(_), optimizers_returnStatement(_),
          optimizers_shortReturnStatement(_), optimizers_breakStatement(_),
          optimizers_incrementStatement(_), optimizers_decrementStatement(_),
          optimizers_binary(_), optimizers_unary(_), optimizers_functionCall(_),
          Dispatch(_, _)

FlatMapItems(items) ==
  IF items = <<>> THEN List(<<>>)
  ELSE LET h == optimize(Head(items))
       IN IF h = Threw THEN Threw
          ELSE LET t == FlatMapItems(Tail(items))
               IN IF t = Threw THEN Threw
                  ELSE List((IF h.js = "Array" THEN h.items ELSE <<h>>) \o t.items)
\* a.flatMap(optimize); a TypeError when a is not an array
flatMapOptimize(a) == IF a.js = "Array" THEN FlatMapItems(a.items) ELSE Threw

MapItems(items) ==
  IF items = <<>> THEN List(<<>>)
  ELSE LET h == optimize(Head(items))
       IN IF h = Threw THEN Threw
          ELSE LET t == MapItems(Tail(items))
               IN IF t = Threw THEN Threw ELSE List(<<h>> \o t.items)
\* a.map(optimize)
mapOptimize(a) == IF a.js = "Array" THEN MapItems(a.items) ELSE Threw

optimizers_program(p) ==
  LET st == flatMapOptimize(Get(p, "statements"))
  IN IF st = Threw THEN Threw ELSE Set(p, "statements", st)

optimizers_functionDeclaration(d) ==
  LET f == optimize(Get(d, "fun"))
  IN IF f = Threw THEN Threw
     ELSE IF ~Truthy(Get(d, "body")) THEN Set(d, "fun", f)
     ELSE LET b == flatMapOptimize(Get(d, "body"))
          IN IF b = Threw THEN Threw ELSE Set(Set(d, "fun", f), "body", b)

optimizers_arrayExpression(e) ==
  LET el == mapOptimize(Get(e, "elements"))
  IN IF el = Threw THEN Threw ELSE Set(e, "elements", el)

optimizers_variableDeclaration(d) ==
  LET v == optimize(Get(d, "variable"))
  IN IF v = Threw THEN Threw
     ELSE LET i == optimize(Get(d, "initializer"))
          IN IF i = Threw THEN Threw
             ELSE Set(Set(d, "variable", v), "initializer", i)

optimizers_typeDeclaration(d) ==
  LET t == optimize(Get(d, "type"))
  IN IF t = Threw THEN Threw ELSE Set(d, "type", t)

\* optimizers.ifStatement with the rewrite of an else-if alternate left out
optimizers_ifStatement_alternateKept(s) ==
  LET test == optimize(Get(s, "test"))
  IN IF test = Threw THEN Threw
     ELSE LET consequent == flatMapOptimize(Get(s, "consequent"))
          IN IF consequent = Threw THEN Threw
             ELSE LET alt == Get(s, "alternate")
                      alternate ==
                        IF EndsWithIfStatement(KindOf(alt))
                        THEN alt
                        ELSE flatMapOptimize(alt)
                  IN IF alternate = Threw THEN Threw
                     ELSE IF test.js = "Boolean"
                          THEN (IF test.val THEN consequent ELSE alternate)
                          ELSE Set(Set(Set(s, "test", test), "consequent", consequent),
                                   "alternate", alternate)

optimizers_ifStatement(s) ==
  LET test == optimize(Get(s, "test"))
  IN IF test = Threw THEN Threw
     ELSE LET consequent == flatMapOptimize(Get(s, "consequent"))
          IN IF consequent = Threw THEN Threw
             ELSE LET alt == Get(s, "alternate")
                      alternate ==
                        IF EndsWithIfStatement(KindOf(alt))
                        THEN optimize(alt)
                        ELSE flatMapOptimize(alt)
                  IN IF alternate = Threw THEN Threw
                     ELSE IF test.js = "Boolean"
                          THEN (IF test.val THEN consequent ELSE alternate)
                          ELSE Set(Set(Set(s, "test", test), "consequent", consequent),
                                   "alternate", alternate)

optimizers_shortIfStatement(s) ==
  LET test == optimize(Get(s, "test"))
  IN IF test = Threw THEN Threw
     ELSE LET consequent == flatMapOptimize(Get(s, "consequent"))
          IN IF consequent = Threw THEN Threw
             ELSE IF test.js = "Boolean"
                  THEN (IF test.val THEN consequent ELSE List(<<>>))
                  ELSE Set(Set(s, "test", test), "consequent", consequent)

optimizers_whileStatement(s) ==
  LET test == optimize(Get(s, "test"))
  IN IF test = Threw THEN Threw
     ELSE IF test = Bool(FALSE) THEN List(<<>>)
     ELSE LET body == flatMapOptimize(Get(s, "body"))
          IN IF body = Threw THEN Threw
             ELSE Set(Set(s, "test", test), "body", body)

optimizers_forRangeStatement(s) ==
  LET iterator == optimize(Get(s, "iterator"))
      low == optimize(Get(s, "low"))
      op == optimize(Get(s, "op"))
      high == optimize(Get(s, "high"))
      body == flatMapOptimize(Get(s, "body"))
  IN IF Threw \in {iterator, low, op, high, body} THEN Threw
     ELSE IF low.js = "Number" /\ high.js = "Number" /\ NumLess(high, low)
          THEN List(<<>>)
          ELSE [s EXCEPT !.iterator = iterator, !.low = low, !.op = op,
                         !.high = high, !.body = body]

optimizers_forStatement(s) ==
  LET iterator == optimize(Get(s, "iterator"))
      collection == optimize(Get(s, "collection"))
      body == flatMapOptimize(Get(s, "body"))
  IN IF Threw \in {iterator, collection, body} THEN Threw
     ELSE IF KindOf(collection) = "EmptyArray" THEN List(<<>>)
          ELSE [s EXCEPT !.iterator = iterator, !.collection = collection,
                         !.body = body]

optimizers_returnStatement(s) ==
  LET e == optimize(Get(s, "expression"))
  IN IF e = Threw THEN Threw ELSE Set(s, "expression", e)

optimizers_shortReturnStatement(s) == s

optimizers_incrementStatement(s) ==
  LET o == optimize(Get(s, "operand"))
  IN IF o = Threw THEN Threw ELSE Set(s, "operand", o)

optimizers_decrementStatement(s) ==
  LET o == optimize(Get(s, "operand"))
  IN IF o = Threw THEN Threw ELSE Set(s, "operand", o)

optimizers_breakStatement(s) == s

\* the constant folding of optimizers.binary, for numeric left and right
Fold(op, l, r) ==
  CASE op = Str("+") -> NumAdd(l, r)
    [] op = Str("-") -> NumSub(l, r)
    [] op = Str("*") -> NumMul(l, r)
    [] op = Str("/") -> NumDiv(l, r)
    [] op = Str("**") -> NumPow(l, r)
    [] op = Str("<") -> Bool(NumLess(l, r))
    [] op = Str("<=") -> Bool(NumLess(l, r) \/ NumEq(l, r))
    [] op = Str("==") -> Bool(NumEq(l, r))
    [] op = Str("!=") -> Bool(~NumEq(l, r))
    [] op = Str(">=") -> Bool(NumLess(r, l) \/ NumEq(l, r))
    [] op = Str(">") -> Bool(NumLess(r, l))
    [] OTHER -> Undefined

optimizers_binary(e) ==
  LET op == optimize(Get(e, "op"))
      left == optimize(Get(e, "left"))
      right == optimize(Get(e, "right"))
      e1 == Set(Set(Set(e, "op", op), "left", left), "right", right)
  IN IF Threw \in {op, left, right} THEN Threw
     ELSE IF op = Str("??")
          THEN (IF KindOf(left) = "EmptyOptional" THEN right ELSE e1)
     ELSE IF op = Str("&&")
          THEN (IF left = Bool(TRUE) THEN right
                ELSE IF right = Bool(TRUE) THEN left ELSE e1)
     ELSE IF op = Str("||")
          THEN (IF left = Bool(FALSE) THEN right
                ELSE IF right = Bool(FALSE) THEN left ELSE e1)
     ELSE IF IsNumeric(left)
          THEN (IF IsNumeric(right)
                THEN (IF Fold(op, left, right) = Undefined THEN e1
                      ELSE Fold(op, left, right))
                ELSE IF left = Num(0) /\ op = Str("+") THEN right
                ELSE IF left = Num(1) /\ op = Str("*") THEN right
                ELSE IF left = Num(0) /\ op = Str("-")
                     THEN unary("-", right, Undefined)
                ELSE IF left = Num(1) /\ op = Str("**") THEN Num(1)
                ELSE IF left = Num(0) /\ op \in {Str("*"), Str("/")} THEN Num(0)
                ELSE e1)
     ELSE IF IsNumeric(right)
          THEN (IF op \in {Str("+"), Str("-")} /\ right = Num(0) THEN left
                ELSE IF op \in {Str("*"), Str("/")} /\ right = Num(1) THEN left
                ELSE IF op = Str("*") /\ right = Num(0) THEN Num(0)
                ELSE IF op = Str("**") /\ right = Num(0) THEN Num(1)
                ELSE e1)
     ELSE e1

optimizers_unary(e) ==
  LET op == optimize(Get(e, "op"))
      operand == optimize(Get(e, "operand"))
  IN IF Threw \in {op, operand} THEN Threw
     ELSE IF operand.js = "Number" /\ op = Str("-") THEN NumNeg(operand)
     ELSE Set(Set(e, "op", op), "operand", operand)

optimizers_functionCall(c) ==
  LET callee == optimize(Get(c, "callee"))
  IN IF callee = Threw THEN Threw
     ELSE LET args == mapOptimize(Get(c, "args"))
          IN IF args = Threw THEN Threw
             ELSE Set(Set(c, "callee", callee), "args", args)

\* optimizers[k](n), for k a property of optimizers
Dispatch(k, n) ==
  CASE k = "program" -> optimizers_program(n)
    [] k = "functionDeclaration" -> optimizers_functionDeclaration(n)
    [] k = "arrayExpression" -> optimizers_arrayExpression(n)
    [] k = "variableDeclaration" -> optimizers_variableDeclaration(n)
    [] k = "typeDeclaration" -> optimizers_typeDeclaration(n)
    [] k = "ifStatement" -> optimizers_ifStatement(n)
    [] k = "shortIfStatement" -> optimizers_shortIfStatement(n)
    [] k = "whileStatement" -> optimizers_whileStatement(n)
    [] k = "forRangeStatement" -> optimizers_forRangeStatement(n)
    [] k = "forStatement" -> optimizers_forStatement(n)
    [] k = "returnStatement" -> optimizers_returnStatement(n)
    [] k = "shortReturnStatement" -> optimizers_shortReturnStatement(n)
    [] k = "incrementStatement" -> optimizers_incrementStatement(n)
    [] k = "decrementStatement" -> optimizers_decrementStatement(n)
    [] k = "breakStatement" -> optimizers_breakStatement(n)
    [] k = "binary" -> optimizers_binary(n)
    [] k = "unary" -> optimizers_unary(n)
    [] k = "functionCall" -> optimizers_functionCall(n)
    [] OTHER -> n

\* optimizers?.[node.kind]?.(node) ?? node
optimize(n) ==
  IF Nullish(n) \/ n = Threw THEN Threw
  ELSE IF KindOf(n) \in OptimizerKeys
       THEN LET r == Dispatch(KindOf(n), n) IN IF Nullish(r) THEN n ELSE r
       ELSE n

\* ------------------------------------------------- the inputs of optimize
\* entities, as the analyzer and the optimizer's tests declare them
x == variable("x", FALSE, numberType)
y == variable("y", FALSE, boolType)
a == variable("a", FALSE, arrayType(numberType))
i == variable("i", TRUE, numberType)
xpp == incrementStatement(x)

NumLits == {Num(n) : n \in 0..MaxNum}
BoolLits == {Bool(TRUE), Bool(FALSE)}
Atoms == NumLits \cup BoolLits \cup {x, y, a, emptyArray(arrayType(numberType)), Str("s")}
BoolAtoms == BoolLits \cup {y}
Blocks == {List(<<>>), List(<<xpp>>)}

\* the print argument of the generator test's fixture "small":
\* y && y || unhooked || (x*2) != 5
SmallPrintArg ==
  binary("||",
         binary("||", binary("&&", y, y, boolType), Bool(FALSE), boolType),
         binary("!=", binary("*", x, Num(2), numberType), Num(5), boolType),
         boolType)
\* statements built without an expression
StmtSeeds ==
  {breakStatement, continueStatement, shortReturnStatement,
   variableDeclaration(x, Null),
   typeDeclaration(structType("S", List(<<field("n", numberType)>>)))}
Seeds == Atoms \cup StmtSeeds \cup {SmallPrintArg}

ExpKinds ==
  {"Variable", "BinaryExpression", "UnaryExpression", "arrayExpression",
   "emptyArray", "FunctionCall"}
StmtKinds ==
  {"functionDeclaration", "variableDeclaration", "typeDeclaration", "ifStatement",
   "forRangeStatement", "forStatement", "whileStatement", "returnStatement",
   "incrementStatement", "decrementStatement", "BreakStatement",
   "continueStatement", "tryCatchStatement", "printStatement", "FunctionCall"}
IsExp(n) == n.js \in {"Number", "Boolean", "String"} \/ KindOf(n) \in ExpKinds
IsStmt(n) == KindOf(n) \in StmtKinds

BinaryOps ==
  {"||", "&&", "<", "<=", "==", "!=", ">=", ">", "+", "-", "*", "/", "%", "**"}

RECURSIVE equivalent(_, _)
equivalent(t1, t2) ==
  \/ t1 = t2
  \/ /\ KindOf(t1) = "ArrayType" /\ KindOf(t2) = "ArrayType"
     /\ equivalent(t1.baseType, t2.baseType)

\* the operand checks of the analyzer's binary expression rules
Accepts(op, l, r) ==
  CASE op \in {"||", "&&"} -> TypeOf(l) = boolType /\ TypeOf(r) = boolType
    [] op \in {"<", "<=", ">", ">="} ->
         TypeOf(l) \in {numberType, stringType} /\ equivalent(TypeOf(l), TypeOf(r))
    [] op \in {"==", "!="} -> equivalent(TypeOf(l), TypeOf(r))
    [] op = "+" ->
         TypeOf(l) \in {numberType, stringType} /\ equivalent(TypeOf(l), TypeOf(r))
    [] op \in {"-", "*", "/", "%"} ->
         TypeOf(l) = numberType /\ equivalent(TypeOf(l), TypeOf(r))
    [] op = "**" -> TypeOf(l) = numberType /\ TypeOf(r) = numberType
    [] OTHER -> FALSE
ResultType(op, l) ==
  IF op \in {"||", "&&", "<", "<=", "==", "!=", ">=", ">"} THEN boolType
  ELSE TypeOf(l)

Building == pc = "build" /\ wraps < MaxWraps
Built(n) ==
  /\ node' = n
  /\ wraps' = wraps + 1
  /\ UNCHANGED <<result, result2, pc>>
  /\ UNCHANGED avars

\* Exp_or .. Factor_exponent: node becomes one operand of a binary expression
MkBinary ==
  /\ Building /\ IsExp(node)
  /\ \E op \in BinaryOps, o \in Atoms, nodeOnLeft \in BOOLEAN :
       LET l == IF nodeOnLeft THEN node ELSE o
           r == IF nodeOnLeft THEN o ELSE node
       IN Accepts(op, l, r) /\ Built(binary(op, l, r, ResultType(op, l)))

\* Primary_unary
MkUnary ==
  /\ Building /\ IsExp(node)
  /\ \/ TypeOf(node) = numberType /\ Built(unary("-", node, numberType))
     \/ TypeOf(node) = boolType /\ Built(unary("!", node, boolType))

\* Primary_array
MkArrayExpression ==
  /\ Building /\ IsExp(node)
  /\ \E els \in {<<node>>, <<node, node>>} :
       Built(Set(arrayExpression(List(els)), "type", arrayType(TypeOf(node))))

\* FuncCall, of a function whose one parameter has the argument's type
MkFunctionCall ==
  /\ Building /\ IsExp(node)
  /\ Built(functionCall(fun("f", functionType(List(<<TypeOf(node)>>), numberType)),
                        List(<<node>>)))

\* PrintStmt
MkPrintStatement == Building /\ IsExp(node) /\ Built(printStatement(node))

\* ReturnStmt_long
MkReturnStatement == Building /\ IsExp(node) /\ Built(returnStatement(node))

\* VarDecl_variable_public, VarDecl_variable_private
MkVariableDeclaration ==
  /\ Building /\ IsExp(node)
  /\ \E readOnly \in BOOLEAN :
       Built(variableDeclaration(variable("v", readOnly, TypeOf(node)), node))

\* IncStmt, DecStmt
MkIncDecStatement ==
  /\ Building /\ KindOf(node) = "Variable" /\ TypeOf(node) = numberType
  /\ Built(incrementStatement(node)) \/ Built(decrementStatement(node))

\* IfStmt_if_else: node is the test, or the one statement of a block
MkIfStatement ==
  /\ Building
  /\ \/ /\ IsExp(node) /\ TypeOf(node) = boolType
        /\ \E c \in Blocks, alt \in Blocks : Built(ifStatement(node, c, alt))
     \/ /\ IsStmt(node)
        /\ \E t \in BoolAtoms, b \in Blocks :
             \/ Built(ifStatement(t, List(<<node>>), b))
             \/ Built(ifStatement(t, b, List(<<node>>)))

\* an if whose alternate is itself an if node, the else-if shape that
\* optimizers.ifStatement tells apart by alternate.kind
MkNestedIfStatement ==
  /\ Building /\ KindOf(node) = "ifStatement"
  /\ \E t \in BoolAtoms, c \in Blocks : Built(ifStatement(t, c, node))

\* IfStmt_if
MkShortIfStatement ==
  /\ Building
  /\ \/ /\ IsExp(node) /\ TypeOf(node) = boolType
        /\ \E c \in Blocks : Built(shortIfStatement(node, c))
     \/ /\ IsStmt(node)
        /\ \E t \in BoolAtoms : Built(shortIfStatement(t, List(<<node>>)))

\* WhileStmt_while
MkWhileStatement ==
  /\ Building
  /\ \/ /\ IsExp(node) /\ TypeOf(node) = boolType
        /\ \E b \in Blocks : Built(whileStatement(node, b))
     \/ /\ IsStmt(node)
        /\ \E t \in BoolAtoms : Built(whileStatement(t, List(<<node>>)))

\* ForStmt_for_in_range
MkForRangeStatement ==
  /\ Building
  /\ \E op \in {"...", "..<"}, n \in NumLits :
       \/ /\ IsExp(node) /\ TypeOf(node) = numberType
          /\ \/ Built(forRangeStatement(i, node, op, n, List(<<xpp>>)))
             \/ Built(forRangeStatement(i, n, op, node, List(<<xpp>>)))
       \/ /\ IsStmt(node)
          /\ Built(forRangeStatement(i, n, op, Num(0), List(<<node>>)))

\* ForStmt_for_in_collection
MkForStatement ==
  /\ Building
  /\ \/ /\ IsExp(node) /\ KindOf(TypeOf(node)) = "ArrayType"
        /\ \E b \in Blocks :
             Built(forStatement(variable("e", TRUE, TypeOf(node).baseType), node, b))
     \/ /\ IsStmt(node)
        /\ \E c \in {a, emptyArray(arrayType(numberType))} :
             Built(forStatement(variable("e", TRUE, numberType), c, List(<<node>>)))

\* FuncDecl_function_public
MkFunctionDeclaration ==
  /\ Building /\ IsStmt(node)
  /\ \E rt \in {numberType, voidType} :
       Built(functionDeclaration("f", fun("f", functionType(List(<<>>), rt)),
                                 List(<<>>), List(<<node>>)))

\* TryStmt
MkTryCatchStatement ==
  /\ Building /\ IsStmt(node)
  /\ Built(tryCatchStatement(List(<<node>>), Undefined))

\* Program
MkProgram ==
  /\ Building /\ IsStmt(node)
  /\ \E sts \in {<<node>>, <<node, xpp>>} : Built(program(List(sts)))

\* optimize(node)
Optimize ==
  /\ pc = "build"
  /\ result' = optimize(node)
  /\ pc' = "optimized"
  /\ UNCHANGED <<node, wraps, result2>>
  /\ UNCHANGED avars

\* optimize run again on its own output
Reoptimize ==
  /\ pc = "optimized" /\ result # Threw
  /\ result2' = optimize(result)
  /\ pc' = "done"
  /\ UNCHANGED <<node, wraps, result>>
  /\ UNCHANGED avars

\* optimizers.binary(node): the handler of the folding and of the algebraic
\* identities, applied to a binary expression
Binary ==
  /\ pc = "build" /\ KindOf(node) = "BinaryExpression"
  /\ result' = optimizers_binary(node)
  /\ pc' = "binary"
  /\ UNCHANGED <<node, wraps, result2>>
  /\ UNCHANGED avars

Init ==
  /\ node \in Seeds
  /\ wraps = 0
  /\ result = Undefined
  /\ result2 = Undefined
  /\ pc = "build"
  /\ context = <<>> /\ stack = <<>> /\ thrown = Undefined /\ rep = Undefined
  /\ call = Undefined /\ steps = 0

Next ==
  \/ MkBinary
  \/ MkUnary
  \/ MkArrayExpression
  \/ MkFunctionCall
  \/ MkPrintStatement
  \/ MkReturnStatement
  \/ MkVariableDeclaration
  \/ MkIncDecStatement
  \/ MkIfStatement
  \/ MkNestedIfStatement
  \/ MkShortIfStatement
  \/ MkWhileStatement
  \/ MkForRangeStatement
  \/ MkForStatement
  \/ MkFunctionDeclaration
  \/ MkTryCatchStatement
  \/ MkProgram
  \/ Optimize
  \/ Reoptimize
  \/ Binary

Spec == Init /\ [][Next]_allvars

TypeOK == pc \in {"build", "optimized", "done", "binary"} /\ wraps \in 0..MaxWraps

\* ------------------------------------------------------------- analyzer.js
\* largest number of handler invocations (statements, fields) of one analysis
MaxSteps == 3
\* largest number of handlers pending inside the Program handler
MaxDepth == 2

\* the identifiers of the analyzed programs
Tags == {"x", "y"}

\* throw new Error(message), from must; a TypeError is the value Threw
Error(message) == [js |-> "Error", message |-> message]
Abrupt(v) == v.js \in {"Error", "TypeError"}
\* a handler's normal completion: the context it leaves and the value it returns
Ok(ctx, r) == [js |-> "Ok", context |-> ctx, rep |-> r]

\* the value of an expression, named once: One({body : v \in {e}}) is body with
\* v the value of e
One(S) == CHOOSE v \in S : TRUE

\* must(condition, message, errorLocation), the line and column prefix left out
must(condition, message) == IF condition THEN Undefined ELSE Error(message)

\* class Context.  A context is the chain of its frames, the root first and
\* the current frame last; the parent of a context is the chain without its
\* last frame.  adds counts the calls of add on the frame.
Context_root ==
  <<[locals |-> <<>>, adds |-> 0, inLoop |-> FALSE, function |-> Null]>>
Current(ctx) == ctx[Len(ctx)]
Parent(ctx) == SubSeq(ctx, 1, Len(ctx) - 1)

Context_add(ctx, name, entity) ==
  [ctx EXCEPT ![Len(ctx)] =
     [@ EXCEPT !.locals = Set(@, name, entity), !.adds = @ + 1]]

\* Context.lookup with the ancestors left out
Context_lookup_currentFrameOnly(ctx, name) ==
  IF ctx # <<>> /\ name \in DOMAIN Current(ctx).locals
  THEN Current(ctx).locals[name]
  ELSE Undefined

RECURSIVE Context_lookup(_, _)
Context_lookup(ctx, name) ==
  IF ctx = <<>> THEN Undefined
  ELSE IF name \in DOMAIN Current(ctx).locals THEN Current(ctx).locals[name]
  ELSE Context_lookup(Parent(ctx), name)

\* newChildContext(props): { ...this, ...props, parent: this, locals: new Map() }
newChildContext(ctx, props) ==
  Append(ctx,
         [locals |-> <<>>, adds |-> 0,
          inLoop |-> IF "inLoop" \in DOMAIN props THEN props.inLoop
                     ELSE Current(ctx).inLoop,
          function |-> IF "function" \in DOMAIN props THEN props.function
                       ELSE Current(ctx).function])
NoProps == <<>>

AlreadyDeclared(name) == "Identifier " \o name \o " already declared"
NotDeclared(name) == "Identifier " \o name \o " not declared"
BreakOutsideLoop == "Break can only appear in a loop"
ContinueOutsideLoop == "Continue can only appear in a loop"
ReturnOutsideFunction == "Return can only appear in a function"
ClassInFunction == "Classes can't be made inside of functions"

\* mustNotAlreadyBeDeclared with the check left out
mustNotAlreadyBeDeclared_unchecked(ctx, name) == Undefined

mustNotAlreadyBeDeclared(ctx, name) ==
  must(~Truthy(Context_lookup(ctx, name)), AlreadyDeclared(name))
mustHaveBeenFound(entity, name) == must(Truthy(entity), NotDeclared(name))
mustHaveNumericType(e) == must(TypeOf(e) = numberType, "Expected a number")
mustHaveBooleanType(e) == must(TypeOf(e) = boolType, "Expected a boolean")
cannotAssignANumberToVoid(e) ==
  must(TypeOf(e) # voidType, "Cannot assign a number to void")
mustHaveAnArrayType(e) ==
  must(KindOf(TypeOf(e)) = "ArrayType", "Expected an array")
\* k.endsWith("Type"), over the kinds core.js gives
EndsWithType(k) ==
  k \in {"functionType", "ArrayType", "VoidType", "NumberType", "StringType",
         "LetType", "ConstType", "BoolType", "structType", "classType"}
mustBeAType(e) == must(EndsWithType(KindOf(e)), "Type expected")

\* mustNotContainBreakInFunction with the check left out
mustNotContainBreakInFunction_unchecked(ctx) == Undefined

mustNotContainBreakInFunction(ctx) == must(~Current(ctx).inLoop, BreakOutsideLoop)
mustBeInLoop(ctx) == must(Current(ctx).inLoop, BreakOutsideLoop)
continuMustBeInLoop(ctx) == must(Current(ctx).inLoop, ContinueOutsideLoop)
mustBeInAFunction(ctx) == must(Truthy(Current(ctx).function), ReturnOutsideFunction)
mustNotBeInFunction(ctx) == must(~Truthy(Current(ctx).function), ClassInFunction)
mustBeCallable(e) == must(KindOf(e) = "Function", "Call of non-function")
\* mustNotReturnAnything with the check left out
mustNotReturnAnything_unchecked(f) == Undefined

mustNotReturnAnything(f) ==
  must(f.type.returnType = voidType, "Something should be returned")
mustReturnSomething(f) ==
  must(f.type.returnType # voidType, "Cannot return a value from this function")
\* mustHaveCorrectArgumentCount with the check left out
mustHaveCorrectArgumentCount_unchecked(argCount, paramCount) == Undefined

mustHaveCorrectArgumentCount(argCount, paramCount) ==
  must(argCount = paramCount,
       ToString(paramCount) \o " argument(s) required but " \o ToString(argCount)
         \o " passed")

\* u === v for two objects: a struct type has the identity its id stands for,
\* the types core.js exports are one object each
SameObject(u, v) ==
  IF KindOf(u) = "structType" /\ KindOf(v) = "structType" THEN u.id = v.id
  ELSE u = v /\ KindOf(u) \in {"VoidType", "NumberType", "StringType", "BoolType"}

includesAsField(s, type) ==
  \E k \in 1..Len(s.fields.items) : SameObject(s.fields.items[k].type, type)
mustNotBeSelfContaining(s) ==
  must(~includesAsField(s, s), "Struct type must not be self-containing")
mustHaveDistinctFields(type) ==
  must(Cardinality({type.fields.items[k].name : k \in 1..Len(type.fields.items)})
         = Len(type.fields.items),
       "Fields must be distinct")

\* ANY is core.anyType, which core.js does not export: undefined
ANY == Undefined
\* toType == ANY || equivalent(fromType, toType)
assignable(fromType, toType) == Nullish(toType) \/ equivalent(fromType, toType)

\* typeDescription(type): a string, undefined for a kind without a case, and a
\* TypeError for a type that is undefined
RECURSIVE typeDescription(_)
typeDescription(type) ==
  IF Nullish(type) THEN Threw
  ELSE CASE KindOf(type) = "NumberType" -> Str("number")
         [] KindOf(type) = "StringType" -> Str("string")
         [] KindOf(type) = "BoolType" -> Str("boolean")
         [] KindOf(type) = "ArrayType" ->
              LET b == typeDescription(type.baseType)
              IN IF b = Threw THEN Threw
                 ELSE Str("[" \o (IF b = Undefined THEN "undefined" ELSE b.val) \o "]")
         [] OTHER -> Undefined
Described(d) == IF d = Undefined THEN "undefined" ELSE d.val

mustBeAssignable(e, toType) ==
  One({ IF from = Threw \/ to = Threw THEN Threw
        ELSE must(assignable(TypeOf(e), toType),
                  "Cannot assign a " \o Described(from) \o " to a " \o Described(to))
        : from \in {typeDescription(TypeOf(e))}, to \in {typeDescription(toType)} })
mustBeReturnable(e, f) == mustBeAssignable(e, f.type.returnType)

\* ---- Type
\* the syntax of a type: number, boolean, string, lost, a tag, or Type "[]"
TNumber == [t |-> "number"]
TBoolean == [t |-> "boolean"]
TLost == [t |-> "lost"]
TId(tag) == [t |-> "id", tag |-> tag]
TArray(base) == [t |-> "array", base |-> base]

Type_id(ctx, id) ==
  One({ IF Abrupt(mustHaveBeenFound(entity, id)) THEN mustHaveBeenFound(entity, id)
        ELSE IF Abrupt(mustBeAType(entity)) THEN mustBeAType(entity)
        ELSE entity
        : entity \in {Context_lookup(ctx, id)} })

RECURSIVE Type_rep(_, _)
Type_rep(ctx, type) ==
  CASE type.t = "number" -> numberType
    [] type.t = "boolean" -> boolType
    [] type.t = "string" -> stringType
    [] type.t = "lost" -> voidType
    [] type.t = "id" -> Type_id(ctx, type.tag)
    [] type.t = "array" ->
         One({ IF Abrupt(b) THEN b ELSE arrayType(b)
               : b \in {Type_rep(ctx, type.base)} })

\* ---- Exp
\* the syntax of an expression: a literal, a tag, a call, an array
ELit(v) == [e |-> "lit", val |-> v]
EId(tag) == [e |-> "id", tag |-> tag]
ECall(tag, args) == [e |-> "call", tag |-> tag, args |-> args]
EArray(elements) == [e |-> "array", elements |-> elements]

Primary_id(ctx, tag) ==
  One({ IF Abrupt(mustHaveBeenFound(entity, tag)) THEN mustHaveBeenFound(entity, tag)
        ELSE entity
        : entity \in {Context_lookup(ctx, tag)} })

RECURSIVE Exp_rep(_, _), Exps_rep(_, _), Args_rep(_, _, _), FuncCall(_, _, _),
          Primary_array(_, _)

\* exps.map((e) => e.rep()): the values in order, or the first throw
Exps_rep(ctx, exps) ==
  IF exps = <<>> THEN List(<<>>)
  ELSE One({ IF Abrupt(h) THEN h
             ELSE One({ IF Abrupt(t) THEN t ELSE List(<<h>> \o t.items)
                        : t \in {Exps_rep(ctx, Tail(exps))} })
             : h \in {Exp_rep(ctx, Head(exps))} })

\* the arguments of a call, each checked against its parameter's type
\* (targetTypes[i] is undefined past the end of targetTypes)
Args_rep(ctx, exps, targetTypes) ==
  IF exps = <<>> THEN List(<<>>)
  ELSE One({ IF Abrupt(arg) THEN arg
             ELSE IF Abrupt(mustBeAssignable(arg, toType))
                  THEN mustBeAssignable(arg, toType)
                  ELSE One({ IF Abrupt(t) THEN t ELSE List(<<arg>> \o t.items)
                             : t \in {Args_rep(ctx, Tail(exps),
                                                IF targetTypes = <<>> THEN <<>>
                                                ELSE Tail(targetTypes))} })
             : arg \in {Exp_rep(ctx, Head(exps))},
               toType \in {IF targetTypes = <<>> THEN Undefined
                           ELSE Head(targetTypes)} })

\* FuncCall: tag.rep() is the lookup of the tag, as Primary_id makes it (the
\* same reading as for the Primary_id of IncStmt and DecStmt)
FuncCall(ctx, tag, exps) ==
  One({ IF Abrupt(callee) THEN callee
        ELSE IF Abrupt(mustBeCallable(callee)) THEN mustBeCallable(callee)
        ELSE LET targetTypes == callee.type.paramTypes
             IN IF Nullish(targetTypes) THEN Threw
                ELSE IF Abrupt(mustHaveCorrectArgumentCount(Len(exps),
                                                            Len(targetTypes.items)))
                     THEN mustHaveCorrectArgumentCount(Len(exps),
                                                       Len(targetTypes.items))
                     ELSE One({ IF Abrupt(args) THEN args
                                ELSE functionCall(callee, args)
                                : args \in {Args_rep(ctx, exps, targetTypes.items)} })
        : callee \in {Primary_id(ctx, tag)} })

Primary_array(ctx, exps) ==
  One({ IF Abrupt(elements) THEN elements
        ELSE Set(arrayExpression(elements), "type",
                 arrayType(TypeOf(elements.items[1])))
        : elements \in {Exps_rep(ctx, exps)} })

Exp_rep(ctx, exp) ==
  CASE exp.e = "lit" -> exp.val
    [] exp.e = "id" -> Primary_id(ctx, exp.tag)
    [] exp.e = "call" -> FuncCall(ctx, exp.tag, exp.args)
    [] exp.e = "array" -> Primary_array(ctx, exp.elements)

\* ---- the statement handlers, each from the context it starts in to Ok(the
\* context it leaves, the node it returns) or to what it throws

VarDecl_variable(ctx, readOnly, type, tag, exp) ==
  One({ IF Abrupt(t) THEN t
        ELSE IF Abrupt(mustNotAlreadyBeDeclared(ctx, tag))
             THEN mustNotAlreadyBeDeclared(ctx, tag)
        ELSE One({ One({ IF Abrupt(expression) THEN expression
                         ELSE IF Abrupt(mustBeAssignable(expression, t))
                              THEN mustBeAssignable(expression, t)
                              ELSE Ok(declared,
                                      variableDeclaration(variable(tag, readOnly, t),
                                                          expression))
                         : expression \in {Exp_rep(declared, exp)} })
                   : declared \in {Context_add(ctx, tag, variable(tag, readOnly, t))} })
        : t \in {Type_rep(ctx, type)} })

VarDecl_type(ctx, readOnly, type, tag) ==
  One({ IF Abrupt(t) THEN t
        ELSE IF Abrupt(mustNotAlreadyBeDeclared(ctx, tag))
             THEN mustNotAlreadyBeDeclared(ctx, tag)
        ELSE Ok(Context_add(ctx, tag, variable(tag, readOnly, t)),
                variableDeclaration(variable(tag, readOnly, t), Null))
        : t \in {Type_rep(ctx, type)} })

\* the syntax of a parameter: Type tag
PSyn(type, tag) == [type |-> type, tag |-> tag]

Param(ctx, p) ==
  IF Abrupt(mustNotAlreadyBeDeclared(ctx, p.tag))
  THEN mustNotAlreadyBeDeclared(ctx, p.tag)
  ELSE One({ IF Abrupt(t) THEN t
             ELSE Ok(Context_add(ctx, p.tag, variable(p.tag, FALSE, t)),
                     variable(p.tag, FALSE, t))
             : t \in {Type_rep(ctx, p.type)} })

\* Params: the parameters in order; rep is the list of their variables
RECURSIVE Params(_, _)
Params(ctx, ps) ==
  IF ps = <<>> THEN Ok(ctx, List(<<>>))
  ELSE One({ IF Abrupt(h) THEN h
             ELSE One({ IF Abrupt(t) THEN t
                        ELSE Ok(t.context, List(<<h.rep>> \o t.rep.items))
                        : t \in {Params(h.context, Tail(ps))} })
             : h \in {Param(ctx, Head(ps))} })

\* FuncDecl_function_public and _private up to the call of block.rep(): the
\* entity is added to the current frame, the child frame is entered, the
\* parameters are analyzed in it and the entity's paramTypes are assigned.
\* The entity is one object: the assignment shows in the binding of the
\* enclosing frame and in the child frame's function alike.
FuncDecl_enter(ctx, type, tag, ps) ==
  One({ IF Abrupt(rt) THEN rt
        ELSE IF Abrupt(cannotAssignANumberToVoid(functionType(Undefined, rt)))
             THEN cannotAssignANumberToVoid(functionType(Undefined, rt))
        ELSE IF Abrupt(mustNotAlreadyBeDeclared(ctx, tag))
             THEN mustNotAlreadyBeDeclared(ctx, tag)
        ELSE One({ IF Abrupt(analyzedParams) THEN analyzedParams
                   ELSE LET paramTypes ==
                              List([k \in 1..Len(analyzedParams.rep.items) |->
                                      TypeOf(analyzedParams.rep.items[k])])
                            functionEntity == fun(tag, functionType(paramTypes, rt))
                            c == analyzedParams.context
                        IN Ok([c EXCEPT
                                 ![Len(c) - 1].locals[tag] = functionEntity,
                                 ![Len(c)].function = functionEntity],
                              [fun |-> functionEntity, params |-> analyzedParams.rep])
                   : analyzedParams \in
                       {Params(newChildContext(
                                 Context_add(ctx, tag, fun(tag, functionType(Undefined, rt))),
                                 [function |-> fun(tag, functionType(Undefined, rt))]),
                               ps)} })
        : rt \in {Type_rep(ctx, type)} })

\* FuncDecl_function_public from the return of block.rep()
FuncDecl_function_public_leave(ctx, tag, functionEntity, analyzedParams, body) ==
  IF Abrupt(mustNotContainBreakInFunction(Parent(ctx)))
  THEN mustNotContainBreakInFunction(Parent(ctx))
  ELSE Ok(Parent(ctx), functionDeclaration(tag, functionEntity, analyzedParams, body))

\* FuncDecl_function_private from the return of block.rep(): params.rep() is
\* called once more, in the enclosing context, and its result is what
\* core.functionDeclaration receives as body; the fifth argument is dropped
FuncDecl_function_private_leave(ctx, tag, functionEntity, analyzedParams, ps, body) ==
  IF Abrupt(mustNotContainBreakInFunction(Parent(ctx)))
  THEN mustNotContainBreakInFunction(Parent(ctx))
  ELSE One({ IF Abrupt(again) THEN again
             ELSE Ok(again.context,
                     functionDeclaration(tag, functionEntity, analyzedParams, again.rep))
             : again \in {Params(Parent(ctx), ps)} })

\* StructDecl with the name registered before the fields are analyzed and the
\* fields filled in afterwards
StructDecl_registeredFirst(ctx, tag, id, fieldReps, at) ==
  IF at = "fields"
  THEN IF Abrupt(mustNotAlreadyBeDeclared(ctx, tag))
       THEN mustNotAlreadyBeDeclared(ctx, tag)
       ELSE Ok(Context_add(ctx, tag, Set(structType(tag, List(<<>>)), "id", id)),
               Undefined)
  ELSE LET s == Set(structType(tag, List(fieldReps)), "id", id)
       IN IF Abrupt(mustNotBeSelfContaining(s)) THEN mustNotBeSelfContaining(s)
          ELSE IF Abrupt(mustHaveDistinctFields(s)) THEN mustHaveDistinctFields(s)
          ELSE Ok(Context_add(ctx, tag, s), typeDeclaration(s))

\* StructDecl.  at = "fields": up to the analysis of the fields, which leaves
\* the context as it is; at = "return": from their return on.  id stands for
\* the identity of the struct type object.
StructDecl(ctx, tag, id, fieldReps, at) ==
  IF at = "fields" THEN Ok(ctx, Undefined)
  ELSE LET s == Set(structType(tag, List(fieldReps)), "id", id)
       IN IF Abrupt(mustNotAlreadyBeDeclared(ctx, tag))
          THEN mustNotAlreadyBeDeclared(ctx, tag)
          ELSE IF Abrupt(mustNotBeSelfContaining(s)) THEN mustNotBeSelfContaining(s)
          ELSE IF Abrupt(mustHaveDistinctFields(s)) THEN mustHaveDistinctFields(s)
          ELSE Ok(Context_add(ctx, tag, s), typeDeclaration(s))

\* Field, of a type that is not itself a struct declaration
Field(ctx, type, tag) ==
  One({ IF Abrupt(t) THEN t ELSE Ok(ctx, field(tag, t)) : t \in {Type_rep(ctx, type)} })

\* ClassDecl_class_public, ClassDecl_class_private
ClassDecl_class(ctx, tag, id) ==
  IF Abrupt(mustNotAlreadyBeDeclared(ctx, tag)) THEN mustNotAlreadyBeDeclared(ctx, tag)
  ELSE IF Abrupt(mustNotBeInFunction(ctx)) THEN mustNotBeInFunction(ctx)
  ELSE LET classType == Set(structType(tag, List(<<>>)), "id", id)
       IN Ok(Context_add(ctx, tag, classType), classType)

PrintStmt(ctx, exp) ==
  One({ IF Abrupt(expression) THEN expression ELSE Ok(ctx, printStatement(expression))
        : expression \in {Exp_rep(ctx, exp)} })

\* the test of IfStmt_if_else, IfStmt_nested_if, IfStmt_if and WhileStmt_while
Test(ctx, exp) ==
  One({ IF Abrupt(test) THEN test
        ELSE IF Abrupt(mustHaveBooleanType(test)) THEN mustHaveBooleanType(test)
        ELSE Ok(ctx, test)
        : test \in {Exp_rep(ctx, exp)} })

\* INT is core.intType, which core.js does not export: undefined
INT == Undefined

\* ForStmt_for_in_range up to the call of block.rep()
ForStmt_for_in_range_enter(ctx, tag) ==
  Ok(Context_add(newChildContext(ctx, [inLoop |-> TRUE]), tag, variable(tag, TRUE, INT)),
     variable(tag, TRUE, INT))

\* ForStmt_for_in_range from the return of block.rep(): low and high are
\* analyzed now, in the enclosing context
ForStmt_for_in_range_leave(ctx, iterator, low, op, high, body) ==
  One({ IF Abrupt(l) THEN l
        ELSE One({ IF Abrupt(h) THEN h
                   ELSE Ok(Parent(ctx), forRangeStatement(iterator, l, op, h, body))
                   : h \in {Exp_rep(Parent(ctx), high)} })
        : l \in {Exp_rep(Parent(ctx), low)} })

\* ForStmt_for_in_collection up to the call of block.rep()
ForStmt_for_in_collection_enter(ctx, tag, exp) ==
  One({ IF Abrupt(collection) THEN collection
        ELSE IF Abrupt(mustHaveAnArrayType(collection))
             THEN mustHaveAnArrayType(collection)
        ELSE LET iterator == variable(tag, TRUE, TypeOf(collection).baseType)
             IN Ok(Context_add(newChildContext(ctx, [inLoop |-> TRUE]), tag, iterator),
                   [iterator |-> iterator, collection |-> collection])
        : collection \in {Exp_rep(ctx, exp)} })

ReturnStmt_long(ctx, exp) ==
  One({ LET f == Current(ctx).function
        IN IF Abrupt(expression) THEN expression
           ELSE IF Abrupt(mustBeInAFunction(ctx)) THEN mustBeInAFunction(ctx)
           ELSE IF Abrupt(mustReturnSomething(f)) THEN mustReturnSomething(f)
           ELSE IF Abrupt(mustBeReturnable(expression, f))
                THEN mustBeReturnable(expression, f)
           ELSE Ok(ctx, returnStatement(expression))
        : expression \in {Exp_rep(ctx, exp)} })

ReturnStmt_short(ctx) ==
  LET f == Current(ctx).function
  IN IF Abrupt(mustBeInAFunction(ctx)) THEN mustBeInAFunction(ctx)
     ELSE IF Abrupt(mustNotReturnAnything(f)) THEN mustNotReturnAnything(f)
     ELSE Ok(ctx, shortReturnStatement)

\* IncStmt: core.incrementStatement takes the variable; the operator is dropped
IncStmt(ctx, tag) ==
  One({ IF Abrupt(v) THEN v
        ELSE IF Abrupt(mustHaveNumericType(v)) THEN mustHaveNumericType(v)
        ELSE Ok(ctx, incrementStatement(v))
        : v \in {Primary_id(ctx, tag)} })

DecStmt(ctx, tag) ==
  One({ IF Abrupt(v) THEN v
        ELSE IF Abrupt(mustHaveNumericType(v)) THEN mustHaveNumericType(v)
        ELSE Ok(ctx, decrementStatement(v))
        : v \in {Primary_id(ctx, tag)} })

\* BreakStmt_break returns the object core.breakStatement
BreakStmt_break(ctx) ==
  IF Abrupt(mustBeInLoop(ctx)) THEN mustBeInLoop(ctx) ELSE Ok(ctx, breakStatement)

\* ContinueStmt_continue calls core.breakStatement, which is an object and no
\* function: a TypeError
ContinueStmt_continue(ctx) ==
  IF Abrupt(continuMustBeInLoop(ctx)) THEN continuMustBeInLoop(ctx) ELSE Threw

\* ---- the analysis of a program, one handler call or return at a time.
\* stack holds the handlers whose block (or fields) is being analyzed, the
\* Program handler first: h is the handler, at its position, data its local
\* constants and stmts the values its statements have returned so far.
\* call is the handler that ran last with its tag and argument, thrown what
\* the analysis threw, rep the value the last handler returned.
Pending(h, at, data) == [h |-> h, at |-> at, data |-> data, stmts |-> <<>>]
Call(h, tag, arg) == [handler |-> h, tag |-> tag, arg |-> arg]
Top == stack[Len(stack)]
Pop(st) == SubSeq(st, 1, Len(st) - 1)

\* the value a handler returns reaches the handler that called it: a
\* statement of its block, or the trailing if of IfStmt_nested_if
Deliver(st, value) ==
  IF st = <<>> THEN st
  ELSE IF st[Len(st)].at = "trailing"
       THEN [st EXCEPT ![Len(st)].at = "return",
                       ![Len(st)].data = Set(@, "alternate", value)]
       ELSE [st EXCEPT ![Len(st)].stmts = Append(@, value)]

Analyzing == thrown = Undefined /\ stack # <<>>
InBlock == Analyzing /\ Top.at \in {"block", "block1", "block2"}
CanStart == InBlock /\ steps < MaxSteps
CanEnter == CanStart /\ Len(stack) <= MaxDepth
\* an if statement is a statement of a block or the trailing if of an else-if
CanEnterIf ==
  /\ Analyzing /\ Top.at \in {"block", "block1", "block2", "trailing"}
  /\ steps < MaxSteps /\ Len(stack) <= MaxDepth

Throws(c, v) ==
  /\ thrown' = v
  /\ call' = c
  /\ UNCHANGED <<context, stack, rep>>

\* a handler without a block ran: r is what it came to
Statement(c, outcome) ==
  /\ steps' = steps + 1
  /\ UNCHANGED vars
  /\ \E r \in {outcome} :
       IF Abrupt(r) THEN Throws(c, r)
       ELSE /\ context' = r.context
            /\ stack' = Deliver(stack, r.rep)
            /\ rep' = r.rep
            /\ call' = c
            /\ UNCHANGED thrown

\* a handler reached its block: ctx is the context the block starts in
Enters(c, ctx, entry) ==
  /\ context' = ctx
  /\ stack' = Append(stack, entry)
  /\ call' = c
  /\ UNCHANGED <<rep, thrown>>

\* a handler's block returned and the handler ran to its end
Leaves(c, outcome) ==
  /\ UNCHANGED <<steps, vars>>
  /\ \E r \in {outcome} :
       IF Abrupt(r) THEN Throws(c, r)
       ELSE /\ context' = r.context
            /\ stack' = Deliver(Pop(stack), r.rep)
            /\ rep' = r.rep
            /\ call' = c
            /\ UNCHANGED thrown

\* the inputs
VarTypes == {TNumber, TBoolean}
Inits == {ELit(Num(1)), ELit(Bool(TRUE))} \cup {EId(t) : t \in Tags}
ReturnTypes == {TNumber, TLost}
ParamLists ==
  {<<>>, <<PSyn(TNumber, "x"), PSyn(TBoolean, "x")>>}
    \cup {<<PSyn(TNumber, t)>> : t \in Tags}
FieldTypes == {TNumber} \cup {TId(t) : t \in Tags} \cup {TArray(TId(t)) : t \in Tags}
Tests == {ELit(Bool(TRUE))} \cup {EId(t) : t \in Tags}
CallArgs == {<<>>, <<ELit(Num(1))>>, <<ELit(Bool(TRUE))>>}
Collections ==
  {EArray(<<ELit(Num(1))>>), EArray(<<ELit(Num(1)), ELit(Bool(TRUE))>>)}
    \cup {EId(t) : t \in Tags}
RangeBounds == {ELit(Num(1)), ELit(Bool(TRUE))}

VarDecl_variable_public ==
  /\ CanStart
  /\ \E type \in VarTypes, tag \in Tags, exp \in Inits :
       Statement(Call("VarDecl_variable_public", tag, exp),
                 VarDecl_variable(context, FALSE, type, tag, exp))

VarDecl_variable_private ==
  /\ CanStart
  /\ \E tag \in Tags :
       Statement(Call("VarDecl_variable_private", tag, ELit(Num(1))),
                 VarDecl_variable(context, TRUE, TNumber, tag, ELit(Num(1))))

VarDecl_type_public ==
  /\ CanStart
  /\ \E type \in VarTypes \cup {TId(t) : t \in Tags}, tag \in Tags :
       Statement(Call("VarDecl_type_public", tag, type),
                 VarDecl_type(context, FALSE, type, tag))

VarDecl_type_private ==
  /\ CanStart
  /\ \E tag \in Tags :
       Statement(Call("VarDecl_type_private", tag, TNumber),
                 VarDecl_type(context, TRUE, TNumber, tag))

FuncDecl_function_public ==
  /\ CanEnter
  /\ steps' = steps + 1 /\ UNCHANGED vars
  /\ \E type \in ReturnTypes, tag \in Tags, ps \in ParamLists :
       \E r \in {FuncDecl_enter(context, type, tag, ps)} :
       LET c == Call("FuncDecl_function_public", tag, type)
       IN IF Abrupt(r) THEN Throws(c, r)
          ELSE Enters(c, r.context,
                      Pending("FuncDecl_function_public", "block",
                              [tag |-> tag, ps |-> ps, fun |-> r.rep.fun,
                               params |-> r.rep.params]))

FuncDecl_function_private ==
  /\ CanEnter
  /\ steps' = steps + 1 /\ UNCHANGED vars
  /\ \E tag \in Tags, ps \in ParamLists :
       \E r \in {FuncDecl_enter(context, TNumber, tag, ps)} :
       LET c == Call("FuncDecl_function_private", tag, TNumber)
       IN IF Abrupt(r) THEN Throws(c, r)
          ELSE Enters(c, r.context,
                      Pending("FuncDecl_function_private", "block",
                              [tag |-> tag, ps |-> ps, fun |-> r.rep.fun,
                               params |-> r.rep.params]))

FuncDecl_function_public_return ==
  /\ InBlock /\ Top.h = "FuncDecl_function_public"
  /\ Leaves(Call("FuncDecl_function_public_return", Top.data.tag, Undefined),
            FuncDecl_function_public_leave(context, Top.data.tag, Top.data.fun,
                                           Top.data.params, List(Top.stmts)))

FuncDecl_function_private_return ==
  /\ InBlock /\ Top.h = "FuncDecl_function_private"
  /\ Leaves(Call("FuncDecl_function_private_return", Top.data.tag, Undefined),
            FuncDecl_function_private_leave(context, Top.data.tag, Top.data.fun,
                                            Top.data.params, Top.data.ps,
                                            List(Top.stmts)))

\* StructDecl, as a statement or as the type of a field, up to its fields
StructDecl_fields ==
  /\ Analyzing /\ Top.at \in {"block", "block1", "block2", "fields"}
  /\ steps < MaxSteps /\ Len(stack) <= MaxDepth
  /\ steps' = steps + 1 /\ UNCHANGED vars
  /\ \E tag \in Tags :
       \E r \in {StructDecl(context, tag, steps, <<>>, "fields")} :
       LET c == Call("StructDecl", tag, Undefined)
       IN IF Abrupt(r) THEN Throws(c, r)
          ELSE Enters(c, r.context,
                      Pending("StructDecl", "fields",
                              [tag |-> tag, id |-> steps, fields |-> <<>>]))

\* one more field of the struct declaration being analyzed, through the
\* handler Field: a type and a tag
StructDecl_Field ==
  /\ Analyzing /\ Top.at = "fields" /\ steps < MaxSteps
  /\ steps' = steps + 1 /\ UNCHANGED vars
  /\ \E type \in FieldTypes, tag \in Tags :
       \E r \in {Field(context, type, tag)} :
       LET c == Call("Field", tag, type)
       IN IF Abrupt(r) THEN Throws(c, r)
          ELSE /\ context' = r.context
               /\ stack' = [stack EXCEPT ![Len(stack)].data.fields = Append(@, r.rep)]
               /\ rep' = r.rep
               /\ call' = c
               /\ UNCHANGED thrown

\* StructDecl from the return of its fields on.  A struct declaration that is
\* the type of a field returns to Field, which returns the field of that type.
StructDecl_return ==
  /\ Analyzing /\ Top.at = "fields"
  /\ UNCHANGED <<steps, vars>>
  /\ \E r \in {StructDecl(context, Top.data.tag, Top.data.id, Top.data.fields, "return")} :
     LET c == Call("StructDecl_return", Top.data.tag, Undefined)
     IN IF Abrupt(r) THEN Throws(c, r)
        ELSE /\ context' = r.context
             /\ call' = c
             /\ UNCHANGED thrown
             /\ IF stack[Len(stack) - 1].at = "fields"
                THEN \E tag \in Tags :
                       /\ rep' = field(tag, r.rep)
                       /\ stack' = [Pop(stack) EXCEPT
                                      ![Len(stack) - 1].data.fields =
                                        Append(@, field(tag, r.rep))]
                ELSE /\ rep' = r.rep
                     /\ stack' = Deliver(Pop(stack), r.rep)

ClassDecl_class_public ==
  /\ CanStart
  /\ \E tag \in Tags :
       Statement(Call("ClassDecl_class_public", tag, Undefined),
                 ClassDecl_class(context, tag, steps))

ClassDecl_class_private ==
  /\ CanStart
  /\ \E tag \in Tags :
       Statement(Call("ClassDecl_class_private", tag, Undefined),
                 ClassDecl_class(context, tag, steps))

PrintStmt_cast ==
  /\ CanStart
  /\ \E exp \in Inits \cup {ECall(t, args) : t \in Tags, args \in CallArgs} :
       Statement(Call("PrintStmt", "", exp), PrintStmt(context, exp))

IfStmt_if_else ==
  /\ CanEnterIf
  /\ steps' = steps + 1 /\ UNCHANGED vars
  /\ \E exp \in Tests :
       \E r \in {Test(context, exp)} :
       LET c == Call("IfStmt_if_else", "", exp)
       IN IF Abrupt(r) THEN Throws(c, r)
          ELSE Enters(c, newChildContext(context, NoProps),
                      Pending("IfStmt_if_else", "block1", [test |-> r.rep]))

\* IfStmt_if_else between its two blocks
IfStmt_if_else_else ==
  /\ Analyzing /\ Top.h = "IfStmt_if_else" /\ Top.at = "block1"
  /\ context' = newChildContext(Parent(context), NoProps)
  /\ stack' = [stack EXCEPT ![Len(stack)] =
                 [h |-> "IfStmt_if_else", at |-> "block2",
                  data |-> Set(Top.data, "consequent", List(Top.stmts)),
                  stmts |-> <<>>]]
  /\ call' = Call("IfStmt_if_else_else", "", Undefined)
  /\ UNCHANGED <<rep, thrown, steps, vars>>

IfStmt_if_else_return ==
  /\ Analyzing /\ Top.h = "IfStmt_if_else" /\ Top.at = "block2"
  /\ Leaves(Call("IfStmt_if_else_return", "", Undefined),
            Ok(Parent(context),
               ifStatement(Top.data.test, Top.data.consequent, List(Top.stmts))))

IfStmt_nested_if ==
  /\ CanEnterIf
  /\ steps' = steps + 1 /\ UNCHANGED vars
  /\ \E exp \in Tests :
       \E r \in {Test(context, exp)} :
       LET c == Call("IfStmt_nested_if", "", exp)
       IN IF Abrupt(r) THEN Throws(c, r)
          ELSE Enters(c, newChildContext(context, NoProps),
                      Pending("IfStmt_nested_if", "block", [test |-> r.rep]))

\* IfStmt_nested_if between its block and its trailing if: the context stays
\* the block's
IfStmt_nested_if_else ==
  /\ Analyzing /\ Top.h = "IfStmt_nested_if" /\ Top.at = "block"
  /\ stack' = [stack EXCEPT ![Len(stack)] =
                 [h |-> "IfStmt_nested_if", at |-> "trailing",
                  data |-> Set(Top.data, "consequent", List(Top.stmts)),
                  stmts |-> <<>>]]
  /\ call' = Call("IfStmt_nested_if_else", "", Undefined)
  /\ UNCHANGED <<context, rep, thrown, steps, vars>>

\* IfStmt_nested_if from the return of its trailing if: it calls
\* core.nestedIfStatement, which core.js does not export
IfStmt_nested_if_return ==
  /\ Analyzing /\ Top.h = "IfStmt_nested_if" /\ Top.at = "return"
  /\ Leaves(Call("IfStmt_nested_if_return", "", Undefined), Threw)

IfStmt_if ==
  /\ CanEnterIf
  /\ steps' = steps + 1 /\ UNCHANGED vars
  /\ \E exp \in Tests :
       \E r \in {Test(context, exp)} :
       LET c == Call("IfStmt_if", "", exp)
       IN IF Abrupt(r) THEN Throws(c, r)
          ELSE Enters(c, newChildContext(context, NoProps),
                      Pending("IfStmt_if", "block", [test |-> r.rep]))

IfStmt_if_return ==
  /\ InBlock /\ Top.h = "IfStmt_if"
  /\ Leaves(Call("IfStmt_if_return", "", Undefined),
            Ok(Parent(context), shortIfStatement(Top.data.test, List(Top.stmts))))

ForStmt_for_in_range ==
  /\ CanEnter
  /\ steps' = steps + 1 /\ UNCHANGED vars
  /\ \E tag \in Tags, low \in RangeBounds :
       LET r == ForStmt_for_in_range_enter(context, tag)
       IN Enters(Call("ForStmt_for_in_range", tag, low), r.context,
                 Pending("ForStmt_for_in_range", "block",
                         [iterator |-> r.rep, low |-> low, op |-> "..<",
                          high |-> ELit(Num(1))]))

ForStmt_for_in_range_return ==
  /\ InBlock /\ Top.h = "ForStmt_for_in_range"
  /\ Leaves(Call("ForStmt_for_in_range_return", Top.data.iterator.name, Undefined),
            ForStmt_for_in_range_leave(context, Top.data.iterator, Top.data.low,
                                       Top.data.op, Top.data.high, List(Top.stmts)))

ForStmt_for_in_collection ==
  /\ CanEnter
  /\ steps' = steps + 1 /\ UNCHANGED vars
  /\ \E tag \in Tags, exp \in Collections :
       \E r \in {ForStmt_for_in_collection_enter(context, tag, exp)} :
       LET c == Call("ForStmt_for_in_collection", tag, exp)
       IN IF Abrupt(r) THEN Throws(c, r)
          ELSE Enters(c, r.context,
                      Pending("ForStmt_for_in_collection", "block", r.rep))

ForStmt_for_in_collection_return ==
  /\ InBlock /\ Top.h = "ForStmt_for_in_collection"
  /\ Leaves(Call("ForStmt_for_in_collection_return", Top.data.iterator.name, Undefined),
            Ok(Parent(context),
               forStatement(Top.data.iterator, Top.data.collection, List(Top.stmts))))

WhileStmt_while ==
  /\ CanEnter
  /\ steps' = steps + 1 /\ UNCHANGED vars
  /\ \E exp \in Tests :
       \E r \in {Test(context, exp)} :
       LET c == Call("WhileStmt_while", "", exp)
       IN IF Abrupt(r) THEN Throws(c, r)
          ELSE Enters(c, newChildContext(context, [inLoop |-> TRUE]),
                      Pending("WhileStmt_while", "block", [test |-> r.rep]))

WhileStmt_while_return ==
  /\ InBlock /\ Top.h = "WhileStmt_while"
  /\ Leaves(Call("WhileStmt_while_return", "", Undefined),
            Ok(Parent(context), whileStatement(Top.data.test, List(Top.stmts))))

ReturnStmt_long_reel ==
  /\ CanStart
  /\ \E exp \in Inits :
       Statement(Call("ReturnStmt_long", "", exp), ReturnStmt_long(context, exp))

ReturnStmt_short_reel ==
  /\ CanStart
  /\ Statement(Call("ReturnStmt_short", "", Undefined), ReturnStmt_short(context))

IncStmt_inc ==
  /\ CanStart
  /\ \E tag \in Tags : Statement(Call("IncStmt", tag, Undefined), IncStmt(context, tag))

DecStmt_dec ==
  /\ CanStart
  /\ \E tag \in Tags : Statement(Call("DecStmt", tag, Undefined), DecStmt(context, tag))

BreakStmt_break_snap ==
  /\ CanStart
  /\ Statement(Call("BreakStmt_break", "", Undefined), BreakStmt_break(context))

ContinueStmt_continue_flow ==
  /\ CanStart
  /\ Statement(Call("ContinueStmt_continue", "", Undefined),
               ContinueStmt_continue(context))

\* TryStmt up to its block: the block is analyzed in the current context
TryStmt ==
  /\ CanEnter
  /\ steps' = steps + 1 /\ UNCHANGED vars
  /\ Enters(Call("TryStmt", "", Undefined), context,
            Pending("TryStmt", "block", Undefined))

\* TryStmt from the return of its block: core.tryCatchStatement(body)
TryStmt_return ==
  /\ InBlock /\ Top.h = "TryStmt"
  /\ Leaves(Call("TryStmt_return", "", Undefined),
            Ok(context, tryCatchStatement(List(Top.stmts), Undefined)))

\* Program: the statements are analyzed, one at least, and the program returned
Program_return ==
  /\ InBlock /\ Top.h = "Program" /\ Top.stmts # <<>>
  /\ Leaves(Call("Program", "", Undefined), Ok(context, program(List(Top.stmts))))

AnalyzerInit ==
  /\ context = Context_root
  /\ stack = <<Pending("Program", "block", Undefined)>>
  /\ thrown = Undefined
  /\ rep = Undefined
  /\ call = Call("analyze", "", Undefined)
  /\ steps = 0
  /\ node = Undefined /\ wraps = 0 /\ result = Undefined /\ result2 = Undefined
  /\ pc = "analyze"

AnalyzerNext ==
  \/ VarDecl_variable_public
  \/ VarDecl_variable_private
  \/ VarDecl_type_public
  \/ VarDecl_type_private
  \/ FuncDecl_function_public
  \/ FuncDecl_function_private
  \/ FuncDecl_function_public_return
  \/ FuncDecl_function_private_return
  \/ StructDecl_fields
  \/ StructDecl_Field
  \/ StructDecl_return
  \/ ClassDecl_class_public
  \/ ClassDecl_class_private
  \/ PrintStmt_cast
  \/ IfStmt_if_else
  \/ IfStmt_if_else_else
  \/ IfStmt_if_else_return
  \/ IfStmt_nested_if
  \/ IfStmt_nested_if_else
  \/ IfStmt_nested_if_return
  \/ IfStmt_if
  \/ IfStmt_if_return
  \/ ForStmt_for_in_range
  \/ ForStmt_for_in_range_return
  \/ ForStmt_for_in_collection
  \/ ForStmt_for_in_collection_return
  \/ WhileStmt_while
  \/ WhileStmt_while_return
  \/ ReturnStmt_long_reel
  \/ ReturnStmt_short_reel
  \/ IncStmt_inc
  \/ DecStmt_dec
  \/ BreakStmt_break_snap
  \/ ContinueStmt_continue_flow
  \/ TryStmt
  \/ TryStmt_return
  \/ Program_return

AnalyzerSpec == AnalyzerInit /\ [][AnalyzerNext]_allvars

\* -------------------------------------------------------------- properties
Optimized == pc \in {"optimized", "done"}
IsBinary(n) == KindOf(n) = "BinaryExpression"
FoldOps == {"+", "-", "*", "/", "**", "<", "<=", "==", "!=", ">=", ">"}
RelOps == {"<", "<=", "==", "!=", ">=", ">"}
\* a op b evaluated directly, for natural numbers a and b
DirectValue(op, m, n) ==
  CASE op = "+" -> Num(m + n)
    [] op = "-" -> Num(m - n)
    [] op = "*" -> Num(m * n)
    [] op = "/" -> Frac(m, n)
    [] op = "**" -> IF n = 0 THEN Num(1) ELSE Num(m ^ n)
    [] op = "<" -> Bool(m < n)
    [] op = "<=" -> Bool(m <= n)
    [] op = "==" -> Bool(m = n)
    [] op = "!=" -> Bool(m # n)
    [] op = ">=" -> Bool(m >= n)
    [] op = ">" -> Bool(m > n)
\* the boolean a test is or folds to; Undefined for any other test
FoldedTest(t) ==
  IF t.js = "Boolean" THEN t
  ELSE IF /\ IsBinary(t) /\ t.op.val \in RelOps
          /\ t.left \in NumLits /\ t.right \in NumLits
       THEN DirectValue(t.op.val, t.left.num, t.right.num)
       ELSE Undefined
\* e is not a literal and does not fold to one
NonLiteral(e) == e.js = "Object" /\ optimize(e).js = "Object"

\* C1: optimize returns a result, without raising an error, for every node
\* built from the analyzer's constructors: a declaration without initializer
\* and a return without expression included.
C1_OptimizeIsTotal == Optimized => result # Threw

\* C2: optimizing core.binary(op, a, b) for numeric literals a, b and a
\* foldable op yields the literal value of a op b.
C2_ConstantFolding ==
  (Optimized /\ IsBinary(node) /\ node.op.val \in FoldOps
     /\ node.left \in NumLits /\ node.right \in NumLits)
  => result = DirectValue(node.op.val, node.left.num, node.right.num)

\* C3: for a non-literal e, e+0, 0+e, e-0, e*1, 1*e, e/1 optimize to e;
\* e*0, 0*e, 0/e to the literal 0; e**0, 1**e to the literal 1; 0-e to the
\* negation of e.
C3_AlgebraicIdentities ==
  (Optimized /\ IsBinary(node))
  => LET op == node.op.val
         l == node.left
         r == node.right
     IN /\ (NonLiteral(l) /\ r = Num(0) /\ op \in {"+", "-"}) => result = optimize(l)
        /\ (NonLiteral(l) /\ r = Num(1) /\ op \in {"*", "/"}) => result = optimize(l)
        /\ (NonLiteral(r) /\ l = Num(0) /\ op = "+") => result = optimize(r)
        /\ (NonLiteral(r) /\ l = Num(1) /\ op = "*") => result = optimize(r)
        /\ (NonLiteral(l) /\ r = Num(0) /\ op = "*") => result = Num(0)
        /\ (NonLiteral(r) /\ l = Num(0) /\ op \in {"*", "/"}) => result = Num(0)
        /\ (NonLiteral(l) /\ r = Num(0) /\ op = "**") => result = Num(1)
        /\ (NonLiteral(r) /\ l = Num(1) /\ op = "**") => result = Num(1)
        /\ (NonLiteral(r) /\ l = Num(0) /\ op = "-")
             => /\ KindOf(result) = "UnaryExpression"
                /\ result.op = Str("-")
                /\ result.operand = optimize(r)

\* C4: a second run of optimize on the output of a first run returns that
\* output unchanged.
C4_Idempotent == pc = "done" => result2 = result
\* a first run that rewrote the inside of a node, followed by a second run
C4_Witness == pc = "done" /\ result.js = "Object" /\ result # node

\* C5: an if/else whose test is, or folds to, a literal boolean optimizes to
\* the optimized statement list of the taken branch.
C5_IfElseTakenBranch ==
  (/\ Optimized /\ KindOf(node) = "ifStatement" /\ "alternate" \in DOMAIN node
   /\ node.alternate.js = "Array"
   /\ flatMapOptimize(node.consequent) # Threw
   /\ flatMapOptimize(node.alternate) # Threw
   /\ FoldedTest(node.test) # Undefined)
  => result = IF FoldedTest(node.test).val THEN flatMapOptimize(node.consequent)
              ELSE flatMapOptimize(node.alternate)

\* C6: core.shortIfStatement(test, consequent) optimizes to the empty list
\* when the test is or folds to false, to the optimized consequent when it is
\* or folds to true.
C6_ShortIf ==
  (/\ Optimized /\ KindOf(node) = "ifStatement" /\ "alternate" \notin DOMAIN node
   /\ flatMapOptimize(node.consequent) # Threw
   /\ FoldedTest(node.test) # Undefined)
  => result = IF FoldedTest(node.test).val THEN flatMapOptimize(node.consequent)
              ELSE List(<<>>)

\* a loop that statically never runs: while false, or a range loop over
\* numeric literals low > high
NeverRuns(s) ==
  \/ KindOf(s) = "whileStatement" /\ s.test = Bool(FALSE)
  \/ /\ KindOf(s) = "forRangeStatement"
     /\ s.low \in NumLits /\ s.high \in NumLits /\ s.low.num > s.high.num
     /\ flatMapOptimize(s.body) # Threw

\* C7: a loop that statically never runs optimizes to the empty list, and a
\* Program holding only such a loop to a Program with no statements.
C7_DeadLoopRemoved ==
  /\ (Optimized /\ NeverRuns(node)) => result = List(<<>>)
  /\ (/\ Optimized /\ KindOf(node) = "Program"
      /\ Len(node.statements.items) = 1 /\ NeverRuns(node.statements.items[1]))
     => result = program(List(<<>>))

\* C8: a collection loop over core.emptyArray optimizes to the empty list.
C8_EmptyCollectionLoop ==
  (/\ Optimized /\ KindOf(node) = "forStatement"
   /\ KindOf(node.collection) = "emptyArray"
   /\ flatMapOptimize(node.body) # Threw)
  => result = List(<<>>)

\* C9: e || false and false || e optimize to e, e && true and true && e to e,
\* and a left-nested chain whose operands but one are the dropped literal to
\* that one operand.
Dropped(op) == IF op = "||" THEN Bool(FALSE) ELSE Bool(TRUE)
C9_ShortCircuit ==
  (Optimized /\ IsBinary(node) /\ node.op.val \in {"||", "&&"})
  => LET d == Dropped(node.op.val)
         l == node.left
         r == node.right
         chain == IsBinary(l) /\ l.op = node.op
     IN /\ (r = d /\ ~chain) => result = optimize(l)
        /\ l = d => result = optimize(r)
        /\ (chain /\ r = d /\ l.right = d) => result = optimize(l.left)
        /\ (chain /\ r = d /\ l.left = d) => result = optimize(l.right)
        /\ (chain /\ l.left = d /\ l.right = d) => result = optimize(r)

\* a binary expression the folding, identity or short-circuit rules rewrite
Rewritable(e) ==
  /\ IsBinary(e)
  /\ LET op == e.op.val
         l == e.left
         r == e.right
     IN \/ op \in FoldOps /\ l.js = "Number" /\ r.js = "Number"
        \/ op = "||" /\ Bool(FALSE) \in {l, r}
        \/ op = "&&" /\ Bool(TRUE) \in {l, r}
        \/ l = Num(0) /\ op \in {"+", "-", "*", "/"} /\ r.js # "Number"
        \/ l = Num(1) /\ op \in {"*", "**"} /\ r.js # "Number"
        \/ r = Num(0) /\ op \in {"+", "-", "*", "**"} /\ l.js # "Number"
        \/ r = Num(1) /\ op \in {"*", "/"} /\ l.js # "Number"
ChildFields ==
  {"statements", "body", "elements", "initializer", "test", "consequent",
   "alternate", "low", "high", "collection", "expression", "operand",
   "tryBlock", "catchBlock", "args", "left", "right", "callee"}
RECURSIVE HasRewritable(_)
HasRewritable(v) ==
  CASE v.js = "Array" -> \E k \in DOMAIN v.items : HasRewritable(v.items[k])
    [] v.js = "Object" ->
         \/ Rewritable(v)
         \/ \E f \in ChildFields \cap DOMAIN v : HasRewritable(v[f])
    [] OTHER -> FALSE

\* C10: after optimize is applied to a Program, no expression position of it
\* still holds a binary expression the rewrite rules apply to.
C10_EveryPositionReached ==
  (Optimized /\ KindOf(node) = "Program" /\ result # Threw)
  => ~HasRewritable(result)


\* ------------------------------------------------- properties of the analyzer
\* the handlers that declare a variable
VarDeclHandlers ==
  {"VarDecl_variable_public", "VarDecl_variable_private",
   "VarDecl_type_public", "VarDecl_type_private"}

\* C11: nested-scope shadowing is permitted: a variable declaration in a
\* nested scope (the context has a parent) of a name that the nested scope
\* itself does not bind is never refused as 'already declared', whatever the
\* ancestor scopes bind.
C11_NestedShadowingAccepted ==
  (/\ call.handler \in VarDeclHandlers
   /\ Len(context) > 1
   /\ call.tag \notin DOMAIN Current(context).locals)
  => thrown # Error(AlreadyDeclared(call.tag))

\* the returns of the handlers that analyze a block in a child context
ScopeReturns ==
  {"FuncDecl_function_public_return", "FuncDecl_function_private_return",
   "IfStmt_if_else_return", "IfStmt_nested_if_return", "IfStmt_if_return",
   "ForStmt_for_in_range_return", "ForStmt_for_in_collection_return",
   "WhileStmt_while_return"}

\* C12: scope exit: when a loop, an if or a function (public or private) has
\* been analyzed, a name that its scope bound (a parameter or a declaration of
\* its body) and that the enclosing scopes did not bind is not resolvable in
\* the context the following statements are analyzed in: a reference to it
\* fails with 'not declared'.
C12_ScopeExit ==
  [][(thrown' = Undefined /\ call'.handler \in ScopeReturns)
       => \A n \in Tags :
            (/\ n \in DOMAIN Current(context).locals
             /\ Context_lookup(Parent(context), n) = Undefined)
            => Primary_id(context', n) = Error(NotDeclared(n))]_allvars

\* the handlers that declare a function, and the points at which a handler
\* checks the declared name: a struct declaration checks it after its fields
FuncDeclHandlers == {"FuncDecl_function_public", "FuncDecl_function_private"}
DeclarationChecks ==
  VarDeclHandlers \cup FuncDeclHandlers
    \cup {"StructDecl_return", "ClassDecl_class_public", "ClassDecl_class_private"}

\* the declaration that call stands for reaches its check of the name: the
\* type of a VarDecl_type is analyzed first and may fail before it
ReachesNameCheck(ctx, c) ==
  c.handler \in {"VarDecl_type_public", "VarDecl_type_private"}
    => ~Abrupt(Type_rep(ctx, c.arg))

Binders(ctx, name) == {k \in 1..Len(ctx) : name \in DOMAIN ctx[k].locals}
Nearest(ctx, name) ==
  ctx[CHOOSE k \in Binders(ctx, name) : \A j \in Binders(ctx, name) : j <= k].locals[name]

\* C14: resolved reference: in every context the analysis reaches, a tag used
\* in an expression, as a call target or as a type name resolves to the
\* binding of the nearest frame that binds it, and fails with 'Identifier
\* <name> not declared' when no frame binds it; the statements that used an
\* unbound tag (increment, decrement, print of a tag or of a call, so also a
\* call of a function declared only later) threw that error, and after a
\* throw the Program handler has not returned a program.
C14_ResolvedReference ==
  /\ \A n \in Tags :
       IF Binders(context, n) = {}
       THEN /\ Primary_id(context, n) = Error(NotDeclared(n))
            /\ Type_id(context, n) = Error(NotDeclared(n))
            /\ \A args \in CallArgs :
                 FuncCall(context, n, args) = Error(NotDeclared(n))
       ELSE /\ Primary_id(context, n) = Nearest(context, n)
            /\ Type_id(context, n) \in {Nearest(context, n), Error("Type expected")}
            /\ \A args \in CallArgs :
                 \/ Abrupt(FuncCall(context, n, args))
                      /\ FuncCall(context, n, args) # Error(NotDeclared(n))
                 \/ FuncCall(context, n, args).callee = Nearest(context, n)
  /\ (call.handler \in {"IncStmt", "DecStmt"} /\ Binders(context, call.tag) = {})
       => thrown = Error(NotDeclared(call.tag))
  /\ (/\ call.handler = "PrintStmt"
      /\ call.arg.e \in {"id", "call"}
      /\ Binders(context, call.arg.tag) = {})
       => thrown = Error(NotDeclared(call.arg.tag))
  /\ thrown # Undefined => (stack # <<>> /\ call.handler # "Program")

\* a tag bound by two frames of the context was used and resolved to the
\* nearer binding
C14_Witness ==
  /\ call.handler = "IncStmt"
  /\ thrown = Undefined
  /\ Cardinality(Binders(context, call.tag)) = 2
  /\ rep.operand = Nearest(context, call.tag)
  /\ rep.operand # context[1].locals[call.tag]

\* the pending handlers that are function declarations, Program first
EnclosingFunctions == {k \in 1..Len(stack) : stack[k].h \in FuncDeclHandlers}
\* the entity of the nearest of them
NearestFunction ==
  stack[CHOOSE k \in EnclosingFunctions : \A j \in EnclosingFunctions : j <= k].data.fun

\* C15: return rule: a return statement that the analyzer accepted stands in
\* the block of a function declaration, possibly inside blocks of ifs and
\* loops; without a value, the nearest enclosing function has the return type
\* Void; with a value, that function's return type is not Void and the type
\* of the returned expression is assignable to it.
C15_ReturnRule ==
  (call.handler \in {"ReturnStmt_long", "ReturnStmt_short"} /\ thrown = Undefined)
  => /\ EnclosingFunctions # {}
     /\ call.handler = "ReturnStmt_short"
          => NearestFunction.type.returnType = voidType
     /\ call.handler = "ReturnStmt_long"
          => /\ NearestFunction.type.returnType # voidType
             /\ assignable(TypeOf(rep.expression), NearestFunction.type.returnType)

\* a return with a value was accepted in a block nested in a function's body
C15_Witness ==
  /\ call.handler = "ReturnStmt_long"
  /\ thrown = Undefined
  /\ Top.h \notin FuncDeclHandlers
  /\ EnclosingFunctions # {}
  /\ rep = returnStatement(rep.expression)

LoopHandlers == {"ForStmt_for_in_range", "ForStmt_for_in_collection", "WhileStmt_while"}
IfHandlers == {"IfStmt_if_else", "IfStmt_nested_if", "IfStmt_if"}
FuncDeclReturns ==
  {"FuncDecl_function_public_return", "FuncDecl_function_private_return"}
\* the handlers pending in st that are loops
EnclosingLoops(st) == {k \in 1..Len(st) : st[k].h \in LoopHandlers}
\* the block of the pending handler e holds a break statement of its own
BreaksDirectly(e) == \E k \in 1..Len(e.stmts) : e.stmts[k] = breakStatement

\* C16: break rule: a break statement with no loop among the pending handlers
\* is refused with 'Break can only appear in a loop'; a function declaration
\* that is pending inside a loop and whose block holds a break statement of
\* its own is refused with the same error when its block returns; a break
\* statement in the block of an if that stands in the block of a loop is
\* accepted and yields the break statement.
C16_BreakRule ==
  [][/\ (call'.handler = "BreakStmt_break" /\ EnclosingLoops(stack') = {})
          => thrown' = Error(BreakOutsideLoop)
     /\ (/\ call'.handler \in FuncDeclReturns
         /\ Top.h \in FuncDeclHandlers
         /\ BreaksDirectly(Top)
         /\ EnclosingLoops(stack) # {})
          => thrown' = Error(BreakOutsideLoop)
     /\ (/\ call'.handler = "BreakStmt_break"
         /\ Top.h \in IfHandlers
         /\ stack[Len(stack) - 1].h \in LoopHandlers)
          => (thrown' = Undefined /\ rep' = breakStatement)]_allvars

\* the declaration of a function in a loop was refused for the break
\* statement in its block
C16_Witness ==
  /\ call.handler \in FuncDeclReturns
  /\ Top.h \in FuncDeclHandlers
  /\ BreaksDirectly(Top)
  /\ EnclosingLoops(stack) # {}
  /\ thrown = Error(BreakOutsideLoop)

\* C17: a continue statement in the block of a loop is accepted and yields
\* the continue statement, which is not the break statement; with no loop
\* among the pending handlers it is refused with 'Continue can only appear in
\* a loop'.
C17_ContinueInLoopAccepted ==
  call.handler = "ContinueStmt_continue"
  => IF EnclosingLoops(stack) = {}
     THEN thrown = Error(ContinueOutsideLoop)
     ELSE Top.h \in LoopHandlers
            => (/\ thrown = Undefined
                /\ rep = continueStatement
                /\ rep # breakStatement)

\* the struct types that a field of type t holds: t itself, or the struct
\* type that an inline struct declaration declares
FieldStructs(t) ==
  IF KindOf(t) = "structType" THEN {t}
  ELSE IF KindOf(t) = "typeDeclaration" /\ KindOf(t.type) = "structType" THEN {t.type}
  ELSE {}
\* the struct types reached from the struct type s through its fields, their
\* fields, and so on
RECURSIVE Reached(_)
Reached(s) ==
  UNION {{u} \cup Reached(u) :
           u \in UNION {FieldStructs(s.fields.items[k].type) :
                          k \in 1..Len(s.fields.items)}}
\* the tags of the struct declarations pending in st
PendingStructs(st) == {st[k].data.tag : k \in {j \in 1..Len(st) : st[j].h = "StructDecl"}}

\* C18: struct acyclicity: no struct type that a frame binds reaches itself
\* through the types of its fields, transitively; a field whose type names a
\* struct whose declaration is still pending (the struct itself, or the
\* struct A around an inline struct B) is refused; and no struct declaration
\* is accepted whose fields reach a struct type of its own name.
C18_StructAcyclicity ==
  [][/\ \A k \in 1..Len(context') : \A n \in DOMAIN context'[k].locals :
          LET s == context'[k].locals[n]
          IN KindOf(s) = "structType" => \A u \in Reached(s) : u.id # s.id
     /\ (/\ call'.handler = "Field"
         /\ call'.arg.t = "id"
         /\ call'.arg.tag \in PendingStructs(stack)
         /\ Binders(context, call'.arg.tag) = {})
        => thrown' = Error(NotDeclared(call'.arg.tag))
     /\ (/\ call'.handler = "StructDecl_return"
         /\ \E k \in 1..Len(Top.data.fields) :
              \E u \in FieldStructs(Top.data.fields[k].type) :
                Top.data.tag \in {v.name : v \in {u} \cup Reached(u)})
        => thrown' # Undefined]_allvars

\* struct A { struct B { A a } b }: the field of B that names A was refused
C18_Witness ==
  /\ Len(stack) >= 3
  /\ Top.h = "StructDecl"
  /\ stack[Len(stack) - 1].h = "StructDecl"
  /\ call.handler = "Field"
  /\ call.arg = TId(stack[Len(stack) - 1].data.tag)
  /\ thrown = Error(NotDeclared(call.arg.tag))

\* C19: two-phase struct declaration: while the fields of a struct
\* declaration are analyzed the struct's name is bound in the context, and a
\* field of the type array of the struct being declared is accepted.
C19_TwoPhaseStruct ==
  /\ \A t \in PendingStructs(stack) : Binders(context, t) # {}
  /\ (call.handler = "Field" /\ call.arg = TArray(TId(Top.data.tag)))
       => thrown = Undefined

\* C20: declaration not inside a function: no frame whose function is set
\* (the frame of a function's body or of a block nested in it at any depth)
\* binds a struct type: class declarations and struct declarations are
\* refused there.
C20_NoTypeDeclarationInFunction ==
  \A k \in 1..Len(context) :
    Truthy(context[k].function)
      => \A n \in DOMAIN context[k].locals :
           KindOf(context[k].locals[n]) # "structType"

\* the properties of a node that hold no node
NoNode == {"js", "kind", "name", "readOnly", "type", "id"}
\* the nodes of the tree n: n itself, the items of an array, the values of a
\* node's properties, and so on downwards
RECURSIVE Nodes(_)
Nodes(n) ==
  IF n.js = "Array" THEN UNION {Nodes(n.items[k]) : k \in 1..Len(n.items)}
  ELSE IF n.js = "Object"
       THEN {n} \cup UNION {Nodes(n[f]) : f \in DOMAIN n \ NoNode}
       ELSE {n}

\* C21: typed expressions: when the analysis succeeds, every expression node
\* of the program it returns (literals, references to variables, parameters
\* and loop iterators, calls, arrays) has a type that is neither null nor
\* undefined.
C21_TypedExpressions ==
  (call.handler = "Program" /\ thrown = Undefined)
  => \A e \in Nodes(rep) : IsExp(e) => ~Nullish(TypeOf(e))

\* the call that the print statement of the last step holds
PrintedCall == call.handler = "PrintStmt" /\ call.arg.e = "call"

\* C22: call rule: an accepted call has a target that resolves to a function
\* entity, as many arguments as the function has parameters, and each
\* argument's type assignable to the type of the parameter at its position;
\* for a call in the callee's own body the parameters are those of the
\* pending declaration.  A call whose target is a variable is refused with
\* 'Call of non-function'.
C22_CallRule ==
  PrintedCall
  => /\ thrown = Undefined
          => LET callee == Nearest(context, call.arg.tag)
                 args == rep.args.args.items
             IN /\ Binders(context, call.arg.tag) # {}
                /\ KindOf(callee) = "Function"
                /\ rep.args.callee = callee
                /\ Len(args) = Len(call.arg.args)
                /\ Len(args) = Len(callee.type.paramTypes.items)
                /\ \A k \in 1..Len(args) :
                     assignable(TypeOf(args[k]), callee.type.paramTypes.items[k])
                /\ (Top.h \in FuncDeclHandlers /\ Top.data.tag = call.arg.tag)
                     => /\ Len(args) = Len(Top.data.ps)
                        /\ \A k \in 1..Len(args) :
                             assignable(TypeOf(args[k]),
                                        Type_rep(context, Top.data.ps[k].type))
     /\ (/\ Binders(context, call.arg.tag) # {}
         /\ KindOf(Nearest(context, call.arg.tag)) = "Variable")
          => thrown = Error("Call of non-function")

\* a function with a parameter was called in its own body and the call accepted
C22_Witness ==
  /\ PrintedCall
  /\ thrown = Undefined
  /\ Top.h \in FuncDeclHandlers
  /\ Top.data.tag = call.arg.tag
  /\ Len(rep.args.args.items) = 1

\* a handler entered its block: the frame it made and the frame it was made in
EntersBlock == Len(stack') = Len(stack) + 1 /\ thrown' = Undefined
FunctionFrame ==
  /\ Current(context').function = Top'.data.fun
  /\ Current(context').inLoop = FALSE
LoopFrame ==
  /\ Current(context').inLoop = TRUE
  /\ Current(context').function = Current(context).function
IfFrame ==
  /\ Current(context').inLoop = Current(context).inLoop
  /\ Current(context').function = Current(context).function

\* C23: child frames: the frame made on entering a function body has the
\* declared entity as its function and inLoop false, whatever the enclosing
\* frame's inLoop is; the frame made on entering a loop body has inLoop true
\* and its parent's function; the frame made for an if block has its parent's
\* inLoop and function.
C23_ChildFrames ==
  [][EntersBlock
     => /\ call'.handler \in FuncDeclHandlers => FunctionFrame
        /\ call'.handler \in LoopHandlers => LoopFrame
        /\ call'.handler \in IfHandlers => IfFrame]_allvars

\* the parts of C23 that hold: the function of a function body's frame, and
\* the frames of loop bodies and if blocks
C23_FramesButInLoopOfFunctions ==
  [][EntersBlock
     => /\ call'.handler \in FuncDeclHandlers
             => Current(context').function = Top'.data.fun
        /\ call'.handler \in LoopHandlers => LoopFrame
        /\ call'.handler \in IfHandlers => IfFrame]_allvars

\* ------------------------------------- properties of the optimizer's rewrites
\* every expression node of n carries a type
Typed(n) == \A e \in Nodes(n) : IsExp(e) => ~Nullish(TypeOf(e))
\* the entities n refers to
Entities(n) == {e \in Nodes(n) : KindOf(e) \in {"Variable", "Function"}}

C24_ThroughOptimize ==
  (pc \in {"optimized", "binary"} /\ result # Threw /\ Typed(node))
  => /\ Entities(result) \subseteq Entities(node)
     /\ pc = "optimized" => Typed(result)

\* the value of the numeric expression e when the variable x holds v: the
\* generator emits (left op right) and -(operand), evaluated by JavaScript
RECURSIVE ValueOf(_, _)
ValueOf(e, v) ==
  IF e.js = "Number" THEN e
  ELSE IF KindOf(e) = "Variable" THEN v
  ELSE IF KindOf(e) = "BinaryExpression"
       THEN Fold(e.op, ValueOf(e.left, v), ValueOf(e.right, v))
  ELSE IF KindOf(e) = "UnaryExpression" /\ e.op = Str("-")
       THEN NumNeg(ValueOf(e.operand, v))
       ELSE Undefined
\* the values of x that are tried
Values == {Num(n) : n \in 0..MaxNum}
\* the handler's result for node has the value of node, whatever x holds
SameValue == \A v \in Values : ValueOf(result, v) = ValueOf(node, v)
\* node is  lit op x  or  x op lit
IsRewritten(l, op, r) ==
  /\ pc \in {"optimized", "binary"} /\ IsBinary(node)
  /\ node.op = Str(op) /\ node.left = l /\ node.right = r

C25_IdentitiesButZeroOverX ==
  (\/ IsRewritten(x, "*", Num(0))
   \/ IsRewritten(Num(0), "*", x)
   \/ IsRewritten(x, "**", Num(0))
   \/ IsRewritten(Num(1), "**", x))
  => SameValue

\* --------------------------------------------- properties of the analyzer, 2
\* the handlers that analyze their block in a frame of their own
FrameHandlers == FuncDeclHandlers \cup LoopHandlers \cup IfHandlers
\* the frames that the pending handlers of st have opened and not yet left
OpenFrames(st) == {k \in 1..Len(st) : st[k].h \in FrameHandlers}

\* a handler has analyzed all its parts and has only its node left to build
\* (a state of its own for the else-if chain, whose last part is an if)
BeforeReturn == stack # <<>> /\ thrown = Undefined /\ Top.at = "return"

C26_BalancedOnReturn ==
  /\ Len(context) = 1 + Cardinality(OpenFrames(stack))
  /\ (stack = <<>> \/ (Len(stack) = 1 /\ Top.h = "Program")) => Len(context) = 1

\* a loop nested in a function declaration returned, then the declaration,
\* and the analysis is back between top-level statements
C26_NestedReturns ==
  /\ thrown = Undefined
  /\ call.handler = "FuncDecl_function_public_return"
  /\ Len(stack) = 1 /\ Top.h = "Program"
  /\ \E k \in 1..Len(Top.stmts) :
       /\ KindOf(Top.stmts[k]) = "functionDeclaration"
       /\ \E j \in 1..Len(Top.stmts[k].body.items) :
            KindOf(Top.stmts[k].body.items[j])
              \in {"whileStatement", "forRangeStatement", "forStatement"}

\* the private form of a function declaration returns from its block
PrivateReturns ==
  /\ stack # <<>> /\ Top.h = "FuncDecl_function_private"
  /\ call'.handler = "FuncDecl_function_private_return"
\* what the public form returns for the same name, entity, parameters and block
AsPublic ==
  FuncDecl_function_public_leave(context, Top.data.tag, Top.data.fun,
                                 Top.data.params, List(Top.stmts))

\* C27: public and private function declarations are analyzed alike: for the
\* same name, return type, parameters and block the private form ends as the
\* public form does, with a FunctionDeclaration node of the same params and
\* the same body, the parameters analyzed once, and the enclosing scope left
\* with one new binding, the function's name.
C27_PrivateAsPublic ==
  [][PrivateReturns
     => IF Abrupt(AsPublic) THEN thrown' = AsPublic
        ELSE /\ thrown' = Undefined
             /\ rep' = AsPublic.rep
             /\ context' = AsPublic.context]_allvars

\* the part of C27 that holds: a private form without parameters and with an
\* empty block ends as the public form does
C27_PrivateAsPublicWhenEmpty ==
  [][(PrivateReturns /\ Top.data.ps = <<>> /\ Top.stmts = <<>>)
     => IF Abrupt(AsPublic) THEN thrown' = AsPublic
        ELSE /\ thrown' = Undefined
             /\ rep' = AsPublic.rep
             /\ context' = AsPublic.context]_allvars

\* a variable declaration whose initializer is the declared name itself, with
\* no binding of that name in scope before the declaration
DeclaresFromItself ==
  /\ call'.handler = "VarDecl_variable_public"
  /\ call'.arg = EId(call'.tag)
  /\ Binders(context, call'.tag) = {}

\* C28: a variable is not in scope in its own initializer: the initializer of
\* a variable declaration is analyzed before the declared name is bound, so a
\* declaration such as number x = x, with no earlier x, is refused with
\* 'Identifier x not declared'.
C28_NotInScopeInOwnInitializer ==
  [][DeclaresFromItself => thrown' = Error(NotDeclared(call'.tag))]_allvars

\* C29: range-loop bounds are checked: the low and high bound of a range loop
\* are analyzed in the enclosing scope before the loop body, and a range loop
\* whose low or high bound does not have type Number is refused: the body of
\* a range loop is entered only with bounds of type Number, and the node of an
\* accepted range loop has bounds of type Number.
C29_RangeBoundsChecked ==
  /\ (call.handler = "ForStmt_for_in_range" /\ thrown = Undefined)
       => /\ TypeOf(Exp_rep(Parent(context), Top.data.low)) = numberType
          /\ TypeOf(Exp_rep(Parent(context), Top.data.high)) = numberType
  /\ (call.handler = "ForStmt_for_in_range_return" /\ thrown = Undefined)
       => /\ TypeOf(rep.low) = numberType
          /\ TypeOf(rep.high) = numberType

\* the part of C29 that holds: the bounds are analyzed in the enclosing scope
\* (the iterator and the body's declarations are not in scope in them)
C29_BoundsInEnclosingScope ==
  [][(stack # <<>> /\ Top.h = "ForStmt_for_in_range"
        /\ call'.handler = "ForStmt_for_in_range_return" /\ thrown' = Undefined)
     => /\ rep'.low = Exp_rep(Parent(context), Top.data.low)
        /\ rep'.high = Exp_rep(Parent(context), Top.data.high)]_allvars

\* the array expressions of the node n
ArrayExpressions(n) == {e \in Nodes(n) : KindOf(e) = "arrayExpression"}
\* every element of the array expression e has the element type of e's type
Homogeneous(e) ==
  \A k \in 1..Len(e.elements.items) :
    equivalent(TypeOf(e.elements.items[k]), e.type.baseType)

\* C30: array literals are homogeneous: an array expression is accepted only
\* if all its elements have equivalent types, so that the element type of the
\* array's type, taken from the first element, is the type of every element.
C30_ArrayLiteralsHomogeneous ==
  /\ (call.handler = "ForStmt_for_in_collection" /\ thrown = Undefined)
       => \A e \in ArrayExpressions(Top.data.collection) : Homogeneous(e)
  /\ (call.handler = "Program" /\ thrown = Undefined)
       => \A e \in ArrayExpressions(rep) : Homogeneous(e)

====
